---------------------------- MODULE Spec2Model ----------------------------
(***************************************************************************)
(* Model of the oclutils device broker (OclUtils.cpp): platform and device *)
(* discovery, the preference ordering, the context fallback walk and the   *)
(* advisory reservation protocol built on flock(2) lock files.             *)
(*                                                                         *)
(* A process is a record (its registry, its position in Initialize); the   *)
(* operating system is a record (the lock files and the open file          *)
(* descriptions of every process).  Code that touches nothing shared is    *)
(* folded into the step that ends with the next system call on a lock      *)
(* file, so processes interleave exactly at open/flock and close.          *)
(***************************************************************************)
EXTENDS Integers, Sequences, FiniteSets, TLC

VARIABLES host,    \* what the compute API reports on this machine (fixed)
          os,      \* lock files and open file descriptions
          procs,   \* the state of every process
          faults   \* environment failures injected so far

vars == <<host, os, procs, faults>>

----------------------------------------------------------------------------
(* Bounds *)

NumProcs == 2
MaxCpu == 1
MaxGpu == 2
MaxUnits == 2
MaxFaults == 1

----------------------------------------------------------------------------
(* Characters and strings: a string is a sequence of one-character strings *)

UpperChars == <<"A","B","C","D","E","F","G","H","I","J","K","L","M",
                "N","O","P","Q","R","S","T","U","V","W","X","Y","Z">>
LowerChars == <<"a","b","c","d","e","f","g","h","i","j","k","l","m",
                "n","o","p","q","r","s","t","u","v","w","x","y","z">>
DigitChars == <<"0","1","2","3","4","5","6","7","8","9">>

Range(s) == {s[i] : i \in DOMAIN s}

Letters == Range(UpperChars) \cup Range(LowerChars)
Digits == Range(DigitChars)

isalpha(c) == c \in Letters
isdigit(c) == c \in Digits

tolower(c) ==
    IF c \in Range(UpperChars)
    THEN LowerChars[CHOOSE i \in DOMAIN UpperChars : UpperChars[i] = c]
    ELSE c

\* std::transform(s.begin(), s.end(), s.begin(), tolower)
ToLowerString(s) == [i \in DOMAIN s |-> tolower(s[i])]

\* s.find(sub) != std::string::npos
Contains(s, sub) ==
    \E i \in 1..(Len(s) - Len(sub) + 1) : SubSeq(s, i, i + Len(sub) - 1) = sub

RECURSIVE FormatInt(_)
\* printf's %d of a non-negative int
FormatInt(n) ==
    IF n < 10 THEN <<DigitChars[n + 1]>>
    ELSE FormatInt(n \div 10) \o <<DigitChars[(n % 10) + 1]>>

----------------------------------------------------------------------------
(* Lock file names *)

LockPrefix == <<"/","t","m","p","/","g","p","u">>
LockSuffix == <<".","l","c","k">>

\* sprintf(t, "Platform: %d  Device: %d (%s, %s)", offset, id, pname, dname)
string_base(platform_id_offset, device_id, platform_name, device_name) ==
    <<"P","l","a","t","f","o","r","m",":"," ">> \o FormatInt(platform_id_offset)
    \o <<" "," ","D","e","v","i","c","e",":"," ">> \o FormatInt(device_id)
    \o <<" ","(">> \o platform_name \o <<","," ">> \o device_name \o <<")">>

\* a sanitizer that keeps letters only
SanitizeLettersOnly(t) ==
    [i \in DOMAIN t |-> IF ~isalpha(t[i]) THEN "_" ELSE t[i]]

\* every character that is neither a letter nor a digit becomes '_'
Sanitize(t) ==
    [i \in DOMAIN t |-> IF ~isalpha(t[i]) /\ ~isdigit(t[i]) THEN "_" ELSE t[i]]

get_lock_filename(device_id, platform_id_offset, platform_name, device_name) ==
    LockPrefix
    \o Sanitize(string_base(platform_id_offset, device_id, platform_name, device_name))
    \o LockSuffix

----------------------------------------------------------------------------
(* The operating system: lock files and open file descriptions.  A flock   *)
(* lock belongs to the open file description that took it; it conflicts    *)
(* with a lock on the same file held through any other description, of     *)
(* another process or of the same one, and goes away when the description  *)
(* is closed (explicitly, or by the kernel when the process ends).         *)

NoFd == 0 - 1

FdsOf(o, p) == {d.fd : d \in {e \in o.ofds : e.proc = p}}

\* open(2) returns the lowest descriptor the process does not use
LowestFreeFd(o, p) ==
    CHOOSE f \in 3..(3 + Cardinality(o.ofds)) :
        /\ f \notin FdsOf(o, p)
        /\ \A g \in 3..(f - 1) : g \in FdsOf(o, p)

\* the descriptions that hold a lock on path
Holders(o, path) == {d \in o.ofds : d.path = path /\ d.locked}

\* flock(f, LOCK_EX | LOCK_NB) on a fresh description: 0, or -1 (EWOULDBLOCK)
FlockSucceeds(o, path) == Holders(o, path) = {}

\* LockFile returning the descriptor although flock answered EWOULDBLOCK
LockFileIgnoresFlock(o, p, path, env) ==
    IF env = "open_fail"
    THEN [fd |-> NoFd, os |-> o, cause |-> "open_failed"]
    ELSE LET f == LowestFreeFd(o, p)
             created == [o EXCEPT !.files = @ \cup {path}]
         IN  IF env = "flock_fail"
             THEN [fd |-> NoFd, os |-> created, cause |-> "flock_failed"]
             ELSE [fd |-> f,
                   os |-> [created EXCEPT !.ofds = @ \cup
                            {[proc |-> p, fd |-> f, path |-> path,
                              locked |-> FlockSucceeds(o, path)]}],
                   cause |-> "locked"]

\* LockFile on a system where a lock conflicts only with the locks of other
\* processes (owned per process, not per open file description)
LockFileOwnedPerProcess(o, p, path, env) ==
    IF env = "open_fail"
    THEN [fd |-> NoFd, os |-> o, cause |-> "open_failed"]
    ELSE LET f == LowestFreeFd(o, p)
             created == [o EXCEPT !.files = @ \cup {path}]
         IN  IF env = "flock_fail"
             THEN [fd |-> NoFd, os |-> created, cause |-> "flock_failed"]
             ELSE IF \E d \in Holders(o, path) : d.proc # p
             THEN [fd |-> NoFd, os |-> created, cause |-> "ewouldblock"]
             ELSE [fd |-> f,
                   os |-> [created EXCEPT !.ofds = @ \cup
                            {[proc |-> p, fd |-> f, path |-> path, locked |-> TRUE]}],
                   cause |-> "locked"]

\* int LockFile(const char *path).  env is what the system does to this call:
\* "ok", "open_fail" (open returns -1), "flock_fail" (flock fails, not EWOULDBLOCK).
\* The result is the descriptor (or -1), the new system state, and why.
LockFile(o, p, path, env) ==
    IF env = "open_fail"
    THEN [fd |-> NoFd, os |-> o, cause |-> "open_failed"]
    ELSE LET f == LowestFreeFd(o, p)
             created == [o EXCEPT !.files = @ \cup {path}]
         IN  IF env = "flock_fail"
             THEN [fd |-> NoFd, os |-> created, cause |-> "flock_failed"]
             ELSE IF ~FlockSucceeds(o, path)
             THEN [fd |-> NoFd, os |-> created, cause |-> "ewouldblock"]
             ELSE [fd |-> f,
                   os |-> [created EXCEPT !.ofds = @ \cup
                            {[proc |-> p, fd |-> f, path |-> path, locked |-> TRUE]}],
                   cause |-> "locked"]

\* an UnlockFile that leaves the descriptor open
UnlockFileNoClose(o, p, f) == o

\* void UnlockFile(int f): close(f)
UnlockFile(o, p, f) ==
    [o EXCEPT !.ofds = {d \in @ : ~(d.proc = p /\ d.fd = f)}]

\* a process end that leaves the descriptions open
CloseNothing(o, p) == o

\* the kernel closes every descriptor of a process that ends
CloseAll(o, p) == [o EXCEPT !.ofds = {d \in @ : d.proc # p}]

----------------------------------------------------------------------------
(* Devices *)

NullDevice == <<0, "none", 0>>

\* OpenCL_device::OpenCL_device().  lock_file is left unset by the constructor
\* and is read only under file_locked; probe records what the discovery probe
\* of this device met (history, not a field of the class).
OpenCL_device ==
    [object_is_initialized |-> FALSE,
     parent_platform       |-> "NULL",
     name                  |-> <<>>,
     id                    |-> 0 - 1,
     device_is_gpu         |-> FALSE,
     max_compute_units     |-> 0,
     device                |-> NullDevice,
     context               |-> "NULL",
     device_is_in_use      |-> FALSE,
     is_lockable           |-> TRUE,
     file_locked           |-> FALSE,
     lock_file             |-> NoFd,
     probe                 |-> "none"]

\* cl_int OpenCL_device::Set_Context(): the handle clCreateContext returns
\* (NULL when it fails) replaces the one the device had
Set_Context(d, ok) == [d EXCEPT !.context = IF ok THEN "ctx" ELSE "NULL"]

\* operator< that compares the compute units alone
OperatorLessUnitsOnly(this, other) ==
    this.max_compute_units > other.max_compute_units

\* operator< with "more or equal" in place of "more" compute units
OperatorLessOrEqualUnits(this, other) ==
    IF this.device_is_in_use = FALSE /\ other.device_is_in_use = TRUE THEN TRUE
    ELSE IF this.device_is_in_use = TRUE /\ other.device_is_in_use = FALSE THEN FALSE
    ELSE this.max_compute_units >= other.max_compute_units

\* bool OpenCL_device::operator<(const OpenCL_device &other)
OperatorLess(this, other) ==
    IF this.device_is_in_use = FALSE /\ other.device_is_in_use = TRUE THEN TRUE
    ELSE IF this.device_is_in_use = TRUE /\ other.device_is_in_use = FALSE THEN FALSE
    ELSE this.max_compute_units > other.max_compute_units

RECURSIVE InsertSortedUnstable(_, _)
\* x goes before the first element that is not less than x: equal elements
\* end up in reverse order
InsertSortedUnstable(x, sorted) ==
    IF sorted = <<>> THEN <<x>>
    ELSE IF ~OperatorLess(Head(sorted), x) THEN <<x>> \o sorted
    ELSE <<Head(sorted)>> \o InsertSortedUnstable(x, Tail(sorted))

RECURSIVE InsertSorted(_, _)
\* x goes after every element it is not less than: equal elements keep their order
InsertSorted(x, sorted) ==
    IF sorted = <<>> THEN <<x>>
    ELSE IF OperatorLess(x, Head(sorted)) THEN <<x>> \o sorted
    ELSE <<Head(sorted)>> \o InsertSorted(x, Tail(sorted))

RECURSIVE SortFrom(_, _)
SortFrom(list, sorted) ==
    IF list = <<>> THEN sorted
    ELSE SortFrom(Tail(list), InsertSorted(Head(list), sorted))

\* a sort that numbers the devices anew, by their place in the sorted list
SortRenumbers(list) ==
    LET s == SortFrom(list, <<>>)
    IN  [k \in DOMAIN s |-> [s[k] EXCEPT !.id = k - 1]]

\* device_list.sort(): std::list::sort with operator<, which is stable
Sort(list) == SortFrom(list, <<>>)

----------------------------------------------------------------------------
(* Platforms *)

NotSet == <<"N","o","t"," ","s","e","t">>

\* OpenCL_platform::OpenCL_platform() with its OpenCL_devices_list member
\* (OpenCL_devices_list::OpenCL_devices_list()).  preferred_device is the
\* position of the preferred device in device_list, 0 for NULL; attempts is
\* the history of Set_Context calls of the last devices_list.Initialize.
OpenCL_platform ==
    [id               |-> 0,
     vendor           |-> NotSet,
     name             |-> NotSet,
     key              |-> "",
     id_offset        |-> 0,
     is_initialized   |-> FALSE,
     nb_cpu           |-> 0,
     nb_gpu           |-> 0,
     device_list      |-> <<>>,
     preferred_device |-> 0,
     attempts         |-> <<>>]

\* the platform keys, in the order std::map<std::string, ...> keeps them
KeyOrder == <<"amd", "apple", "intel", "nvidia">>
Keys == Range(KeyOrder)
KeyRank(k) == CHOOSE i \in DOMAIN KeyOrder : KeyOrder[i] = k

\* platforms.begin()->first
FirstKey(platforms) ==
    CHOOSE k \in DOMAIN platforms :
        \A j \in DOMAIN platforms : KeyRank(k) <= KeyRank(j)

\* the vendor tests applied to the vendor string as the API gave it
ClassifyCaseSensitive(vendor_string) ==
    LET platform_vendor == vendor_string
    IN  IF Contains(platform_vendor, <<"n","v","i","d","i","a">>) THEN "nvidia"
        ELSE IF \/ Contains(platform_vendor,
                      <<"a","d","v","a","n","c","e","d"," ","m","i","c","r","o",
                        " ","d","e","v","i","c","e","s">>)
                \/ Contains(platform_vendor, <<"a","m","d">>) THEN "amd"
        ELSE IF Contains(platform_vendor, <<"i","n","t","e","l">>) THEN "intel"
        ELSE IF Contains(platform_vendor, <<"a","p","p","l","e">>) THEN "apple"
        ELSE "unknown"

\* the vendor tests of OpenCL_platforms_list::Initialize, in their order
Classify(vendor_string) ==
    LET platform_vendor == ToLowerString(vendor_string)
    IN  IF Contains(platform_vendor, <<"n","v","i","d","i","a">>) THEN "nvidia"
        ELSE IF \/ Contains(platform_vendor,
                      <<"a","d","v","a","n","c","e","d"," ","m","i","c","r","o",
                        " ","d","e","v","i","c","e","s">>)
                \/ Contains(platform_vendor, <<"a","m","d">>) THEN "amd"
        ELSE IF Contains(platform_vendor, <<"i","n","t","e","l">>) THEN "intel"
        ELSE IF Contains(platform_vendor, <<"a","p","p","l","e">>) THEN "apple"
        ELSE "unknown"

\* nb_devices()
nb_devices(pl) == pl.nb_cpu + pl.nb_gpu

\* std::list::resize(n): keeps the first n elements, appends default ones.
\* The elements it drops are destroyed; none holds a lock, since Lock() can
\* only run once Initialize has returned.
Resize(list, n) ==
    [k \in 1..n |-> IF k <= Len(list) THEN list[k] ELSE OpenCL_device]

----------------------------------------------------------------------------
(* A process *)

EmptyMap == [k \in {} |-> OpenCL_platform]

\* a process that has constructed its OpenCL_platforms_list and nothing else;
\* arg is the hint its main() will pass to Initialize.
\* i, platform_id_offset, cur (the key of the platform being initialized), it
\* (the position of the list iterator), is_all_devices_in_use and probe_fd
\* (the local "check" of Verify_if_Device_is_Used) are the locals of the
\* Initialize calls in progress.
NewProcess ==
    [pc                    |-> "start",
     arg                   |-> "-1",
     fatal                 |-> "none",
     preferred_platform    |-> "",
     platforms             |-> EmptyMap,
     i                     |-> 0,
     platform_id_offset    |-> 0,
     cur                   |-> "",
     it                    |-> 0,
     is_all_devices_in_use |-> TRUE,
     probe_fd              |-> NoFd]

\* abort(): the process ends where it stands; no destructor runs
Abort(st, why) == [st EXCEPT !.pc = "aborted", !.fatal = why]

\* the devices of the platform the compute API reports first..last
HostCpus(q) == host[q].cpus
HostGpus(q) == host[q].gpus

\* OpenCL_devices_list::Initialize up to its first device: the two count
\* queries, the assert, the resize, and the id query of the first block.
\* nf is what a count query that ends CL_DEVICE_NOT_FOUND does to the count it
\* was given: "zeroed" or "untouched" (the API leaves it open).
DevicesBegin(st, key, nf) ==
    LET pl  == st.platforms[key]
        q   == pl.id
        gpu == IF Len(HostGpus(q)) > 0 THEN Len(HostGpus(q))
               ELSE IF nf = "zeroed" THEN 0 ELSE pl.nb_gpu
        cpu == IF Len(HostCpus(q)) > 0 THEN Len(HostCpus(q))
               ELSE IF nf = "zeroed" THEN 0 ELSE pl.nb_cpu
        pl1 == [pl EXCEPT !.nb_gpu = gpu, !.nb_cpu = cpu]
        st1 == [st EXCEPT !.platforms[key] = pl1]
    IN  IF cpu + gpu < 1 THEN Abort(st1, "no_device")
        ELSE LET pl2 == [pl1 EXCEPT !.device_list = Resize(@, cpu + gpu),
                                    !.attempts = <<>>]
                 st2 == [st1 EXCEPT !.platforms[key] = pl2,
                                    !.it = 1,
                                    !.is_all_devices_in_use = TRUE]
             IN  IF cpu >= 1
                 THEN IF Len(HostCpus(q)) = 0 THEN Abort(st2, "cl_error")
                      ELSE [st2 EXCEPT !.pc = "probe_lock"]
                 ELSE IF Len(HostGpus(q)) = 0 THEN Abort(st2, "cl_error")
                      ELSE [st2 EXCEPT !.pc = "probe_lock"]

\* Initialize taking the offset from the vendor key's rank
PlatformInitializeKeyOffset(pl, key, id_offset, id) ==
    [pl EXCEPT !.key = key, !.id_offset = KeyRank(key) - 1, !.id = id,
               !.name = host[id].name, !.vendor = host[id].vendor]

\* OpenCL_platform::Initialize(key, offset, id, ...): the fields it sets
PlatformInitialize(pl, key, id_offset, id) ==
    [pl EXCEPT !.key = key, !.id_offset = id_offset, !.id = id,
               !.name = host[id].name, !.vendor = host[id].vendor]

RECURSIVE PlatformLoopKeepsFirst(_, _)
\* a platform loop that leaves a key alone once a platform is stored under it
PlatformLoopKeepsFirst(st, nf) ==
    IF st.i > Len(host)
    THEN [st EXCEPT !.pc = "ready",
                    !.preferred_platform =
                        IF @ = "-1" \/ @ = "" THEN FirstKey(st.platforms) ELSE @]
    ELSE LET key == Classify(host[st.i].vendor)
         IN  IF key = "unknown" THEN Abort(st, "unknown_vendor")
             ELSE IF key \in DOMAIN st.platforms
             THEN PlatformLoopKeepsFirst(
                    [st EXCEPT !.i = @ + 1, !.platform_id_offset = @ + 1], nf)
             ELSE LET pl  == PlatformInitialize(OpenCL_platform, key,
                                                st.platform_id_offset, st.i)
                      st1 == [st EXCEPT !.platforms = (key :> pl) @@ @,
                                        !.cur = key]
                  IN  DevicesBegin(st1, key, nf)

\* the platform loop of OpenCL_platforms_list::Initialize from index st.i on,
\* up to the first probe of the next platform, or to the end of Initialize
PlatformLoop(st, nf) ==
    IF st.i > Len(host)
    THEN [st EXCEPT !.pc = "ready",
                    !.preferred_platform =
                        IF @ = "-1" \/ @ = "" THEN FirstKey(st.platforms) ELSE @]
    ELSE LET key == Classify(host[st.i].vendor)
         IN  IF key = "unknown" THEN Abort(st, "unknown_vendor")
             ELSE LET old == IF key \in DOMAIN st.platforms
                             THEN st.platforms[key] ELSE OpenCL_platform
                      pl  == PlatformInitialize(old, key, st.platform_id_offset, st.i)
                      st1 == [st EXCEPT !.platforms = (key :> pl) @@ @,
                                        !.cur = key]
                  IN  DevicesBegin(st1, key, nf)

\* OpenCL_platforms_list::Initialize(hint) up to the first probe
Initialize(st, hint, nf) ==
    LET st1 == [st EXCEPT !.preferred_platform = hint]
    IN  IF Len(host) = 0 THEN Abort(st1, "no_platform")
        ELSE PlatformLoop([st1 EXCEPT !.platform_id_offset = 0, !.i = 1], nf)

----------------------------------------------------------------------------
(* The end of OpenCL_devices_list::Initialize *)

\* a walk that gives up at the first device whose context creation fails
WalkGivesUp(list, k, outcome, attempts) ==
    IF k > Len(list)
    THEN [list |-> list, preferred |-> 0, attempts |-> attempts]
    ELSE [list      |-> [list EXCEPT ![k] = Set_Context(@, outcome[k])],
          preferred |-> IF outcome[k] THEN k ELSE 0,
          attempts  |-> Append(attempts, [id |-> list[k].id, ok |-> outcome[k]])]

RECURSIVE WalkSkipsInUse(_, _, _, _)
\* a walk that passes over the devices marked in use
WalkSkipsInUse(list, k, outcome, attempts) ==
    IF k > Len(list)
    THEN [list |-> list, preferred |-> 0, attempts |-> attempts]
    ELSE IF list[k].device_is_in_use
    THEN WalkSkipsInUse(list, k + 1, outcome, attempts)
    ELSE LET list1 == [list EXCEPT ![k] = Set_Context(@, outcome[k])]
             att   == Append(attempts, [id |-> list[k].id, ok |-> outcome[k]])
         IN  IF outcome[k]
             THEN [list |-> list1, preferred |-> k, attempts |-> att]
             ELSE WalkSkipsInUse(list1, k + 1, outcome, att)

RECURSIVE Walk(_, _, _, _)
\* the loop over the sorted list: Set_Context on each device until one succeeds
Walk(list, k, outcome, attempts) ==
    IF k > Len(list)
    THEN [list |-> list, preferred |-> 0, attempts |-> attempts]
    ELSE LET list1 == [list EXCEPT ![k] = Set_Context(@, outcome[k])]
             att   == Append(attempts, [id |-> list[k].id, ok |-> outcome[k]])
         IN  IF outcome[k]
             THEN [list |-> list1, preferred |-> k, attempts |-> att]
             ELSE Walk(list1, k + 1, outcome, att)

RECURSIVE WalkOn(_, _, _, _, _)
\* the loop without its break: every device is tried, the last success wins
WalkOn(list, k, outcome, attempts, preferred) ==
    IF k > Len(list)
    THEN [list |-> list, preferred |-> preferred, attempts |-> attempts]
    ELSE WalkOn([list EXCEPT ![k] = Set_Context(@, outcome[k])], k + 1, outcome,
                Append(attempts, [id |-> list[k].id, ok |-> outcome[k]]),
                IF outcome[k] THEN k ELSE preferred)

ContextWalkNoBreak(list, outcome) == WalkOn(list, 1, outcome, <<>>, 0)

\* preferred_device = NULL; for (it = begin; it != end; ++it) ...
ContextWalk(list, outcome) == Walk(list, 1, outcome, <<>>)

\* "For each device, store a pointer to its parent platform"
SetParents(list, key) ==
    [k \in DOMAIN list |-> [list[k] EXCEPT !.parent_platform = key]]

\* the end of devices_list.Initialize without the all-in-use test
FinishNoInUseTest(st, outcome, nf) ==
    LET key == st.cur
        pl  == st.platforms[key]
        w   == ContextWalk(Sort(SetParents(pl.device_list, key)), outcome)
        pl1 == [pl EXCEPT !.device_list = w.list,
                          !.preferred_device = w.preferred,
                          !.attempts = w.attempts]
    IN  IF w.preferred = 0
        THEN Abort([st EXCEPT !.platforms[key] = pl1], "no_context")
        ELSE PlatformLoop(
               [st EXCEPT !.platforms[key] = [pl1 EXCEPT !.is_initialized = TRUE],
                          !.platform_id_offset = @ + 1,
                          !.i = @ + 1], nf)

\* the end of devices_list.Initialize with the all-in-use test applied only to
\* the platform the hint names
FinishInUseTestOnHint(st, outcome, nf) ==
    LET key == st.cur
        pl  == st.platforms[key]
    IN  IF st.is_all_devices_in_use = TRUE /\ key = st.preferred_platform
        THEN Abort(st, "all_in_use")
        ELSE LET w   == ContextWalk(Sort(SetParents(pl.device_list, key)), outcome)
                 pl1 == [pl EXCEPT !.device_list = w.list,
                                   !.preferred_device = w.preferred,
                                   !.attempts = w.attempts]
             IN  IF w.preferred = 0
                 THEN Abort([st EXCEPT !.platforms[key] = pl1], "no_context")
                 ELSE PlatformLoop(
                        [st EXCEPT !.platforms[key] = [pl1 EXCEPT !.is_initialized = TRUE],
                                   !.platform_id_offset = @ + 1,
                                   !.i = @ + 1], nf)

\* from the all-in-use test to the end of devices_list.Initialize, then on to
\* the next platform.  outcome[k] is what clCreateContext answers for the
\* k-th device of the sorted list, if it is asked.
Finish(st, outcome, nf) ==
    LET key == st.cur
        pl  == st.platforms[key]
    IN  IF st.is_all_devices_in_use = TRUE THEN Abort(st, "all_in_use")
        ELSE LET w   == ContextWalk(Sort(SetParents(pl.device_list, key)), outcome)
                 pl1 == [pl EXCEPT !.device_list = w.list,
                                   !.preferred_device = w.preferred,
                                   !.attempts = w.attempts]
             IN  IF w.preferred = 0
                 THEN Abort([st EXCEPT !.platforms[key] = pl1], "no_context")
                 ELSE PlatformLoop(
                        [st EXCEPT !.platforms[key] = [pl1 EXCEPT !.is_initialized = TRUE],
                                   !.platform_id_offset = @ + 1,
                                   !.i = @ + 1], nf)

\* what follows Set_Information of the device at st.it: the all-in-use flag,
\* then the next device of the block, the next block, or the end
AfterProbe(st, outcome, nf) ==
    LET pl  == st.platforms[st.cur]
        st1 == [st EXCEPT !.is_all_devices_in_use =
                    IF ~pl.device_list[st.it].device_is_in_use THEN FALSE ELSE @]
        nxt == [st1 EXCEPT !.it = @ + 1, !.pc = "probe_lock"]
    IN  IF st.it < pl.nb_cpu THEN nxt
        ELSE IF st.it = pl.nb_cpu /\ pl.nb_gpu >= 1
        THEN IF Len(HostGpus(pl.id)) = 0 THEN Abort(st1, "cl_error") ELSE nxt
        ELSE IF st.it < nb_devices(pl) THEN nxt
        ELSE Finish(st1, outcome, nf)

\* OpenCL_device::Set_Information(_id, _device, offset, platform_name, gpu)
\* up to the call of Verify_if_Device_is_Used: the capability snapshot
Set_Information(d, id, handle, gpu) ==
    LET hd == IF gpu THEN HostGpus(handle[1])[handle[3]]
                     ELSE HostCpus(handle[1])[handle[3]]
    IN  [d EXCEPT !.object_is_initialized = TRUE,
                  !.id = id,
                  !.device = handle,
                  !.device_is_gpu = gpu,
                  !.max_compute_units = hd.units,
                  !.name = hd.name]

\* the GPU block numbering its devices from 0 like the CPU block
SnapshotAtGpuFromZero(st) ==
    LET pl == st.platforms[st.cur]
        k  == st.it
    IN  IF k <= pl.nb_cpu
        THEN Set_Information(pl.device_list[k], k - 1, <<pl.id, "cpu", k>>, FALSE)
        ELSE Set_Information(pl.device_list[k], k - pl.nb_cpu - 1,
                             <<pl.id, "gpu", k - pl.nb_cpu>>, TRUE)

\* the device the list iterator stands on gets Set_Information(i, ...) in the
\* CPU block and Set_Information(nb_cpu + i, ...) in the GPU block
SnapshotAt(st) ==
    LET pl == st.platforms[st.cur]
        k  == st.it
    IN  IF k <= pl.nb_cpu
        THEN Set_Information(pl.device_list[k], k - 1, <<pl.id, "cpu", k>>, FALSE)
        ELSE Set_Information(pl.device_list[k], pl.nb_cpu + (k - pl.nb_cpu - 1),
                             <<pl.id, "gpu", k - pl.nb_cpu>>, TRUE)

PutDevice(st, d) == [st EXCEPT !.platforms[st.cur].device_list[st.it] = d]

----------------------------------------------------------------------------
(* Reservation *)

\* the path both the probe and Lock() compute for a device of platform pl
PathOf(d, pl) == get_lock_filename(d.id, pl.id_offset, pl.name, d.name)

\* Lock() without the abort() on lock_file == -1
LockNoAbort(d, parent, o, p, env) ==
    LET r == LockFile(o, p, PathOf(d, parent), env)
    IN  [dev     |-> [d EXCEPT !.lock_file = r.fd, !.file_locked = TRUE],
         os      |-> r.os,
         aborted |-> FALSE]

\* a Lock() that also records the device as in use
LockMarksInUse(d, parent, o, p, env) ==
    LET r == LockFile(o, p, PathOf(d, parent), env)
    IN  [dev     |-> [d EXCEPT !.lock_file = r.fd,
                               !.file_locked = IF r.fd = NoFd THEN @ ELSE TRUE,
                               !.device_is_in_use = IF r.fd = NoFd THEN @ ELSE TRUE],
         os      |-> r.os,
         aborted |-> r.fd = NoFd]

\* void OpenCL_device::Lock(), up to the test of lock_file; parent is the
\* platform parent_platform points to
Lock(d, parent, o, p, env) ==
    LET r == LockFile(o, p, PathOf(d, parent), env)
    IN  [dev     |-> [d EXCEPT !.lock_file = r.fd,
                               !.file_locked = IF r.fd = NoFd THEN @ ELSE TRUE],
         os      |-> r.os,
         aborted |-> r.fd = NoFd]

\* Unlock() that clears file_locked and leaves the descriptor open
UnlockKeepsDescriptor(d, o, p) ==
    IF d.file_locked = TRUE
    THEN [dev |-> [d EXCEPT !.file_locked = FALSE], os |-> o]
    ELSE [dev |-> d, os |-> o]

\* Unlock() without the test of file_locked
UnlockUnguarded(d, o, p) ==
    [dev |-> [d EXCEPT !.file_locked = FALSE], os |-> UnlockFile(o, p, d.lock_file)]

\* void OpenCL_device::Unlock()
Unlock(d, o, p) ==
    IF d.file_locked = TRUE
    THEN [dev |-> [d EXCEPT !.file_locked = FALSE], os |-> UnlockFile(o, p, d.lock_file)]
    ELSE [dev |-> d, os |-> o]

\* a destructor that releases the context and leaves the lock alone
DestroyWithoutUnlock(d, o, p) ==
    [dev |-> [d EXCEPT !.context = "NULL"], os |-> o]

\* OpenCL_device::~OpenCL_device()
Destroy(d, o, p) ==
    Unlock([d EXCEPT !.context = "NULL"], o, p)

\* operator[] whose sentinel branch takes the last platform of the map
LookupLast(st, key) ==
    IF key = "-1" \/ key = ""
    THEN IF DOMAIN st.platforms = {} THEN ""
         ELSE CHOOSE k \in DOMAIN st.platforms :
                 \A j \in DOMAIN st.platforms : KeyRank(k) >= KeyRank(j)
    ELSE IF key \in DOMAIN st.platforms THEN key ELSE ""

\* operator[] that answers a key it does not have with the first platform
LookupFallsBack(st, key) ==
    IF DOMAIN st.platforms = {} THEN ""
    ELSE IF key \in DOMAIN st.platforms THEN key ELSE FirstKey(st.platforms)

\* OpenCL_platforms_list::operator[](key): the key found, or "" for abort()
Lookup(st, key) ==
    IF key = "-1" \/ key = ""
    THEN IF DOMAIN st.platforms = {} THEN "" ELSE FirstKey(st.platforms)
    ELSE IF key \in DOMAIN st.platforms THEN key ELSE ""

----------------------------------------------------------------------------
(* The machines the model is run on *)

Procs == 1..NumProcs

VNvidia == <<"N","V","I","D","I","A">>
VAmd    == <<"A","d","v","a","n","c","e","d"," ","M","i","c","r","o"," ",
             "D","e","v","i","c","e","s",","," ","I","n","c",".">>
VIntel  == <<"I","n","t","e","l","(","R",")">>
VOther  == <<"A","R","M">>

PlatformName(v) ==
    IF v = VNvidia THEN <<"C","U","D","A">>
    ELSE IF v = VAmd THEN <<"A","M","D"," ","A","P","P">>
    ELSE IF v = VIntel THEN <<"O","p","e","n","C","L">>
    ELSE <<"M","a","l","i">>

CpuName == <<"i","7","-","9","2","0">>
GpuName == <<"G","T","X"," ","4","8","0">>

SeqsUpTo(S, n) == UNION {[1..k -> S] : k \in 0..n}

CpuDevs == {[name |-> CpuName, units |-> u] : u \in 1..MaxUnits}
GpuDevs == {[name |-> GpuName, units |-> u] : u \in 1..MaxUnits}

HostPlatform(v, c, g) == [vendor |-> v, name |-> PlatformName(v), cpus |-> c, gpus |-> g]

\* one platform, every choice of devices within the bounds
WidePlatforms ==
    {HostPlatform(VNvidia, c, g) : c \in SeqsUpTo(CpuDevs, MaxCpu),
                                   g \in SeqsUpTo(GpuDevs, MaxGpu)}

OneCpu == <<[name |-> CpuName, units |-> 1]>>
OneGpu == <<[name |-> GpuName, units |-> 1]>>

SmallDevices == {<<<<>>, OneGpu>>, <<OneCpu, <<>>>>, <<OneCpu, OneGpu>>}

\* the platforms of the machines with two platforms: the one reported first
\* and the one reported second
FirstPlatforms ==
    {HostPlatform(v, x[1], x[2]) : v \in {VNvidia, VAmd}, x \in SmallDevices}
    \cup {HostPlatform(VOther, <<>>, OneGpu)}

SecondPlatforms ==
    {HostPlatform(VAmd, x[1], x[2]) : x \in SmallDevices}
    \cup {HostPlatform(VOther, <<>>, OneGpu), HostPlatform(VIntel, OneCpu, <<>>)}

\* section 8 of the specification: 1 CPU (4 units), GPU0 (16), GPU1 (32)
ExampleHost ==
    <<HostPlatform(VNvidia, <<[name |-> CpuName, units |-> 4]>>,
                   <<[name |-> GpuName, units |-> 16], [name |-> GpuName, units |-> 32]>>)>>

WideHosts ==
    {<<>>} \cup {<<a>> : a \in WidePlatforms} \cup {ExampleHost}
    \cup {<<a, b>> : a \in FirstPlatforms, b \in SecondPlatforms}

\* the machines of the concurrent runs
SharedHosts ==
    { <<HostPlatform(VNvidia, OneCpu, OneGpu)>>,
      <<HostPlatform(VNvidia, <<>>, OneGpu), HostPlatform(VAmd, OneCpu, <<>>)>>,
      <<HostPlatform(VAmd, <<>>, OneGpu), HostPlatform(VAmd, <<>>, OneGpu)>> }

\* the hints main() may pass: the two sentinels, a key, and with one platform
\* (where every hint but a wrong key selects it) the example's "-1" alone
Hints(h) == IF Len(h) >= 2 THEN {"-1", "", "intel"} ELSE {"-1"}

\* the devices of machine h: <<platform index, position>>, CPUs first
HostDevices(h) ==
    UNION {{<<q, k>> : k \in 1..(Len(h[q].cpus) + Len(h[q].gpus))} : q \in DOMAIN h}

\* the lock path of device x of machine h, as every process derives it
HostPath(h, x) ==
    get_lock_filename(x[2] - 1, x[1] - 1, h[x[1]].name,
                      (h[x[1]].cpus \o h[x[1]].gpus)[x[2]].name)

----------------------------------------------------------------------------
(* Initial states *)

\* the concurrent runs: every process is about to call Initialize("-1"), as
\* main() of the example does, and no lock file exists yet
Init ==
    /\ host \in SharedHosts
    /\ os = [files |-> {}, ofds |-> {}]
    /\ procs = [p \in Procs |-> NewProcess]
    /\ faults = 0

\* a lock another cooperating process (0) holds on device x
ForeignLock(h, x) ==
    [proc |-> 0, fd |-> 3 + x[1] * 8 + x[2], path |-> HostPath(h, x), locked |-> TRUE]

\* the discovery runs: one process, any hint, on a machine where other
\* processes already hold the locks of some of the devices
InitDiscovery ==
    /\ host \in WideHosts
    /\ \E held \in SUBSET HostDevices(host) :
          os = [files |-> {HostPath(host, x) : x \in held},
                ofds  |-> {ForeignLock(host, x) : x \in held}]
    /\ \E hint \in Hints(host) :
          procs = [p \in Procs |-> IF p = 1 THEN [NewProcess EXCEPT !.arg = hint]
                                   ELSE [NewProcess EXCEPT !.pc = "absent"]]
    /\ faults = 0

----------------------------------------------------------------------------
(* Actions *)

Envs == IF faults < MaxFaults THEN {"ok", "open_fail", "flock_fail"} ELSE {"ok"}

NotFound == {"zeroed", "untouched"}

\* the answers of clCreateContext the step can use: they matter only in the
\* step that ends the device loop
Outcomes(st) ==
    LET n == IF st.cur \in DOMAIN st.platforms
             THEN Len(st.platforms[st.cur].device_list) ELSE 0
    IN  IF st.pc \in {"probe_lock", "probe_unlock"} /\ st.it = n
        THEN [1..n -> BOOLEAN]
        ELSE {[k \in 1..n |-> FALSE]}

\* a process that called abort() has lost its descriptors
Settle(o, p, st) == IF st.pc = "aborted" THEN CloseAll(o, p) ELSE o

\* main() calls platforms_list.Initialize(arg); the step runs to the first
\* probe's LockFile
Begin(p) ==
    /\ procs[p].pc = "start"
    /\ \E nf \in NotFound :
          LET st == Initialize(procs[p], procs[p].arg, nf)
          IN  /\ procs' = [procs EXCEPT ![p] = st]
              /\ os' = Settle(os, p, st)
    /\ UNCHANGED <<host, faults>>

\* Set_Information of the device the iterator stands on, then the LockFile
\* of Verify_if_Device_is_Used.  When LockFile returns -1 the device is
\* marked in use and the step runs on to the next LockFile.
ProbeLock(p) ==
    /\ procs[p].pc = "probe_lock"
    /\ \E env \in Envs, nf \in NotFound, outcome \in Outcomes(procs[p]) :
          LET st0 == procs[p]
              d1  == SnapshotAt(st0)
              r   == LockFile(os, p, PathOf(d1, st0.platforms[st0.cur]), env)
              st  == IF r.fd = NoFd
                     THEN AfterProbe(
                            PutDevice(st0, [d1 EXCEPT !.device_is_in_use = TRUE,
                                                      !.probe = r.cause]),
                            outcome, nf)
                     ELSE [PutDevice(st0, d1) EXCEPT !.probe_fd = r.fd,
                                                     !.pc = "probe_unlock"]
          IN  /\ procs' = [procs EXCEPT ![p] = st]
              /\ os' = Settle(r.os, p, st)
              /\ faults' = IF env = "ok" THEN faults ELSE faults + 1
    /\ UNCHANGED host

\* the UnlockFile of Verify_if_Device_is_Used; the device is marked not in
\* use and the step runs on to the next LockFile
ProbeUnlock(p) ==
    /\ procs[p].pc = "probe_unlock"
    /\ \E nf \in NotFound, outcome \in Outcomes(procs[p]) :
          LET st0 == procs[p]
              d0  == st0.platforms[st0.cur].device_list[st0.it]
              o1  == UnlockFile(os, p, st0.probe_fd)
              st  == AfterProbe(
                       PutDevice([st0 EXCEPT !.probe_fd = NoFd],
                                 [d0 EXCEPT !.device_is_in_use = FALSE,
                                            !.probe = "free"]),
                       outcome, nf)
          IN  /\ procs' = [procs EXCEPT ![p] = st]
              /\ os' = Settle(o1, p, st)
    /\ UNCHANGED <<host, faults>>

\* the keys main() may pass to operator[]
UserKeys(st) == DOMAIN st.platforms \cup {st.preferred_platform, "-1"}

\* Lock_Best_Device() that looks at the lock first and, when it is taken,
\* marks the device in use and returns
Lock_Best_Device_Rechecks(st, k, o, p, env) ==
    LET pl == st.platforms[k]
        d  == pl.device_list[pl.preferred_device]
    IN  IF Holders(o, PathOf(d, st.platforms[d.parent_platform])) # {}
        THEN [st |-> [st EXCEPT !.platforms[k].device_list[pl.preferred_device]
                                   .device_is_in_use = TRUE],
              os |-> o]
        ELSE LET r == Lock(d, st.platforms[d.parent_platform], o, p, env)
                 s1 == [st EXCEPT !.platforms[k].device_list[pl.preferred_device] = r.dev]
             IN  [st |-> IF r.aborted THEN Abort(s1, "lock_failed") ELSE s1, os |-> r.os]

\* void OpenCL_platform::Lock_Best_Device() of platforms_list[key]
Lock_Best_Device(st, k, o, p, env) ==
    LET pl == st.platforms[k]
        d  == pl.device_list[pl.preferred_device]
    IN  IF pl.preferred_device = 0
        THEN [st |-> Abort(st, "no_device_present"), os |-> o]
        ELSE IF d.is_lockable
        THEN LET r == Lock(d, st.platforms[d.parent_platform], o, p, env)
                 s1 == [st EXCEPT !.platforms[k].device_list[pl.preferred_device] = r.dev]
             IN  [st |-> IF r.aborted THEN Abort(s1, "lock_failed") ELSE s1, os |-> r.os]
        ELSE [st |-> st, os |-> o]

\* platforms_list[key].Lock_Best_Device()
LockBestDeviceKey(p, key) ==
    /\ procs[p].pc = "ready"
    /\ \E env \in Envs :
          LET st0 == procs[p]
              k   == Lookup(st0, key)
              r   == IF k = "" THEN [st |-> Abort(st0, "platform_not_found"), os |-> os]
                     ELSE Lock_Best_Device(st0, k, os, p, env)
          IN  /\ procs' = [procs EXCEPT ![p] = r.st]
              /\ os' = Settle(r.os, p, r.st)
              /\ faults' = IF env = "ok" THEN faults ELSE faults + 1
    /\ UNCHANGED host

LockBestDevice(p) == \E key \in UserKeys(procs[p]) : LockBestDeviceKey(p, key)

\* platforms_list[key].Prefered_OpenCL().Unlock()
UnlockBestDeviceKey(p, key) ==
    /\ procs[p].pc = "ready"
    /\ LET st0 == procs[p]
           pl  == st0.platforms[key]
           r   == Unlock(pl.device_list[pl.preferred_device], os, p)
       IN  /\ procs' = [procs EXCEPT
                           ![p].platforms[key].device_list[pl.preferred_device] = r.dev]
           /\ os' = r.os
    /\ UNCHANGED <<host, faults>>

UnlockBestDevice(p) == \E key \in DOMAIN procs[p].platforms : UnlockBestDeviceKey(p, key)

RECURSIVE DestroyList(_, _, _, _)
\* the destructors of the devices list[k..], each on the system state the
\* one before it left
DestroyList(list, k, o, p) ==
    IF k > Len(list) THEN [list |-> list, os |-> o]
    ELSE LET r == Destroy(list[k], o, p)
         IN  DestroyList([list EXCEPT ![k] = r.dev], k + 1, r.os, p)

RECURSIVE DestroyPlatforms(_, _, _, _)
DestroyPlatforms(platforms, keys, o, p) ==
    IF keys = {} THEN [platforms |-> platforms, os |-> o]
    ELSE LET k == FirstKey([j \in keys |-> 0])
             r == DestroyList(platforms[k].device_list, 1, o, p)
         IN  DestroyPlatforms([platforms EXCEPT ![k].device_list = r.list],
                              keys \ {k}, r.os, p)

\* main() returns: platforms_list is destroyed, and with it every device;
\* the kernel then closes whatever is still open
Exit(p) ==
    /\ procs[p].pc = "ready"
    /\ LET r == DestroyPlatforms(procs[p].platforms, DOMAIN procs[p].platforms, os, p)
       IN  /\ procs' = [procs EXCEPT ![p].platforms = r.platforms, ![p].pc = "exited"]
           /\ os' = CloseAll(r.os, p)
    /\ UNCHANGED <<host, faults>>

Next ==
    \E p \in Procs :
        \/ Begin(p)
        \/ ProbeLock(p)
        \/ ProbeUnlock(p)
        \/ LockBestDevice(p)
        \/ UnlockBestDevice(p)
        \/ Exit(p)

Spec == Init /\ [][Next]_vars

SpecDiscovery == InitDiscovery /\ [][Next]_vars

----------------------------------------------------------------------------
(* Vocabulary of the properties *)

\* the process runs: it has neither ended nor called abort()
Live(p) == procs[p].pc \in {"start", "probe_lock", "probe_unlock", "ready"}

\* Initialize has returned in process p
Ready(p) == procs[p].pc = "ready"

\* the devices of a process: <<platform key, position in device_list>>
DevicePositions(st) ==
    UNION {{<<k, j>> : j \in 1..Len(st.platforms[k].device_list)} :
             k \in DOMAIN st.platforms}

DeviceAt(st, x) == st.platforms[x[1]].device_list[x[2]]

\* the lock path of the device at x, through its parent pointer
DevicePath(st, x) ==
    PathOf(DeviceAt(st, x), st.platforms[DeviceAt(st, x).parent_platform])

PreferredPosition(st, k) == <<k, st.platforms[k].preferred_device>>

LockedDevices(st) == {x \in DevicePositions(st) : DeviceAt(st, x).file_locked}

\* process p holds, through the descriptor in lock_file, the lock of device x
HoldsLock(o, p, st, x) ==
    [proc |-> p, fd |-> DeviceAt(st, x).lock_file,
     path |-> DevicePath(st, x), locked |-> TRUE] \in o.ofds

\* some description of a process other than p holds the lock on path
HeldByOther(o, p, path) == \E d \in Holders(o, path) : d.proc # p

----------------------------------------------------------------------------
(* C1: mutual exclusion.  No two open file descriptions hold the lock of   *)
(* one path; a Device with file_locked = TRUE in a running process holds   *)
(* the lock of its path through its lock_file descriptor; so no two        *)
(* running processes have a Device with file_locked = TRUE for one path.   *)
C1_MutualExclusion ==
    /\ \A d1, d2 \in os.ofds :
          (d1.locked /\ d2.locked /\ d1.path = d2.path) => d1 = d2
    /\ \A p \in Procs : Live(p) =>
          \A x \in LockedDevices(procs[p]) : HoldsLock(os, p, procs[p], x)
    /\ \A p, q \in Procs : (p # q /\ Live(p) /\ Live(q)) =>
          \A x \in LockedDevices(procs[p]), y \in LockedDevices(procs[q]) :
              DevicePath(procs[p], x) # DevicePath(procs[q], y)

\* one process has reserved a device while the probe of another process, on
\* the same path, met the lock and marked its device in use
C1_Witness ==
    \E p, q \in Procs :
        /\ p # q /\ Live(p) /\ Live(q)
        /\ \E x \in LockedDevices(procs[p]), y \in DevicePositions(procs[q]) :
              /\ DeviceAt(procs[q], y).probe = "ewouldblock"
              /\ DeviceAt(procs[q], y).device_is_in_use
              /\ PathOf(DeviceAt(procs[q], y), procs[q].platforms[y[1]])
                   = DevicePath(procs[p], x)

----------------------------------------------------------------------------
(* C2: Device.Lock() has two outcomes.  A step of Lock_Best_Device that    *)
(* reaches Lock() either leaves the process running with file_locked =     *)
(* TRUE and the lock of the device's path held through lock_file, taken in *)
(* this step on a path nobody held and with no failed system call, or     *)
(* ends the process (abort, all its descriptors closed).  Nothing else is  *)
(* taken or released: there is one attempt, no retry, no wait.             *)
C2_LockOutcomes ==
    [][\A p \in Procs : \A key \in UserKeys(procs[p]) :
          (LockBestDeviceKey(p, key) /\ Lookup(procs[p], key) # "") =>
             LET x    == PreferredPosition(procs[p], Lookup(procs[p], key))
                 path == DevicePath(procs[p], x)
             IN  \/ /\ procs'[p].pc = "aborted"
                    /\ procs'[p].fatal = "lock_failed"
                    /\ os'.ofds = {d \in os.ofds : d.proc # p}
                 \/ /\ procs'[p].pc = "ready"
                    /\ DeviceAt(procs'[p], x).file_locked
                    /\ HoldsLock(os', p, procs'[p], x)
                    /\ Holders(os, path) = {}
                    /\ faults' = faults
                    /\ os'.ofds = os.ofds \cup
                          {[proc |-> p, fd |-> DeviceAt(procs'[p], x).lock_file,
                            path |-> path, locked |-> TRUE]}
      ]_vars

\* both outcomes side by side: one process was ended by its Lock(), another
\* returned from Lock() and holds its device
C2_Witness ==
    \E p, q \in Procs :
        /\ p # q
        /\ procs[p].pc = "aborted" /\ procs[p].fatal = "lock_failed"
        /\ Ready(q) /\ LockedDevices(procs[q]) # {}

(* C3: time of check, time of use.  When Lock_Best_Device runs on a        *)
(* preferred device that the probe marked not in use and whose lock        *)
(* another process holds by now, the process ends fatally: no flag of any  *)
(* device is touched (no new probe), the preferred device and the order of *)
(* the list stay, and no other lock is taken (no retry, no fallback).      *)
C3_NoRecovery ==
    [][\A p \in Procs : \A key \in UserKeys(procs[p]) :
          ( /\ LockBestDeviceKey(p, key)
            /\ Lookup(procs[p], key) # ""
            /\ LET x == PreferredPosition(procs[p], Lookup(procs[p], key))
               IN  /\ ~DeviceAt(procs[p], x).device_is_in_use
                   /\ HeldByOther(os, p, DevicePath(procs[p], x)) ) =>
             /\ procs'[p].pc = "aborted"
             /\ procs'[p].fatal = "lock_failed"
             /\ DOMAIN procs'[p].platforms = DOMAIN procs[p].platforms
             /\ \A k \in DOMAIN procs[p].platforms :
                   procs'[p].platforms[k].preferred_device
                      = procs[p].platforms[k].preferred_device
             /\ \A y \in DevicePositions(procs[p]) :
                   /\ DeviceAt(procs'[p], y).device_is_in_use
                         = DeviceAt(procs[p], y).device_is_in_use
                   /\ DeviceAt(procs'[p], y).id = DeviceAt(procs[p], y).id
                   /\ DeviceAt(procs'[p], y).file_locked
                         = DeviceAt(procs[p], y).file_locked
             /\ os'.ofds = {d \in os.ofds : d.proc # p}
      ]_vars

\* the race has happened: process p was ended by Lock() on a device its own
\* probe found free, while process q holds the reservation of that device
C3_Witness ==
    \E p, q \in Procs :
        /\ p # q
        /\ procs[p].pc = "aborted" /\ procs[p].fatal = "lock_failed"
        /\ faults = 0
        /\ Ready(q)
        /\ \E k \in DOMAIN procs[p].platforms, y \in LockedDevices(procs[q]) :
              LET x == PreferredPosition(procs[p], k)
              IN  /\ DeviceAt(procs[p], x).probe = "free"
                  /\ ~DeviceAt(procs[p], x).device_is_in_use
                  /\ ~DeviceAt(procs[p], x).file_locked
                  /\ DevicePath(procs[p], x) = DevicePath(procs[q], y)
                  /\ HoldsLock(os, q, procs[q], y)

(* C4: round trip.  Unlock() of a device that holds its lock leaves the    *)
(* lock file in place with nobody holding it and file_locked = FALSE; and  *)
(* a Lock() on a device whose path nobody holds, by whichever process,     *)
(* returns with the lock held unless a system call fails.                  *)
C4_RoundTrip ==
    [][\A p \in Procs :
          /\ \A key \in DOMAIN procs[p].platforms :
                ( /\ UnlockBestDeviceKey(p, key)
                  /\ DeviceAt(procs[p], PreferredPosition(procs[p], key)).file_locked ) =>
                   LET x == PreferredPosition(procs[p], key)
                   IN  /\ DevicePath(procs[p], x) \in os'.files
                       /\ Holders(os', DevicePath(procs[p], x)) = {}
                       /\ ~DeviceAt(procs'[p], x).file_locked
          /\ \A key \in UserKeys(procs[p]) :
                ( /\ LockBestDeviceKey(p, key)
                  /\ Lookup(procs[p], key) # ""
                  /\ faults' = faults
                  /\ Holders(os, DevicePath(procs[p],
                        PreferredPosition(procs[p], Lookup(procs[p], key)))) = {} ) =>
                   LET x == PreferredPosition(procs[p], Lookup(procs[p], key))
                   IN  /\ procs'[p].pc = "ready"
                       /\ DeviceAt(procs'[p], x).file_locked
                       /\ HoldsLock(os', p, procs'[p], x)
      ]_vars

\* process p has locked and unlocked a device (its lock_file still names the
\* closed descriptor) and process q now holds the lock of the same path
C4_Witness ==
    \E p, q \in Procs :
        /\ p # q /\ Ready(p) /\ Ready(q)
        /\ \E x \in DevicePositions(procs[p]), y \in LockedDevices(procs[q]) :
              /\ ~DeviceAt(procs[p], x).file_locked
              /\ DeviceAt(procs[p], x).lock_file # NoFd
              /\ DevicePath(procs[p], x) = DevicePath(procs[q], y)
              /\ HoldsLock(os, q, procs[q], y)

(* C5: Unlock() is guarded and idempotent.  On a device with file_locked = *)
(* FALSE an Unlock() step changes nothing at all; on a device that holds   *)
(* its lock it closes exactly that description and clears file_locked.     *)
(* Unlock() applied twice gives what Unlock() applied once gives.          *)
C5_UnlockGuarded ==
    /\ [][\A p \in Procs : \A key \in DOMAIN procs[p].platforms :
             UnlockBestDeviceKey(p, key) =>
                LET x == PreferredPosition(procs[p], key)
                    d == DeviceAt(procs[p], x)
                IN  IF d.file_locked
                    THEN /\ HoldsLock(os, p, procs[p], x)
                         /\ os'.ofds = os.ofds \
                               {[proc |-> p, fd |-> d.lock_file,
                                 path |-> DevicePath(procs[p], x), locked |-> TRUE]}
                         /\ os'.files = os.files
                         /\ procs' = [procs EXCEPT
                               ![p].platforms[key].device_list[x[2]].file_locked = FALSE]
                    ELSE UNCHANGED vars
         ]_vars
    /\ [](\A p \in Procs : Ready(p) =>
             \A x \in DevicePositions(procs[p]) :
                LET once == Unlock(DeviceAt(procs[p], x), os, p)
                IN  Unlock(once.dev, once.os, p) = once)

\* a device that was locked and unlocked keeps in lock_file the number of a
\* descriptor that another device of the same process now holds its lock
\* through: an Unlock() that closed lock_file here would release that lock
C5_Witness ==
    \E p \in Procs :
        /\ Ready(p)
        /\ \E x, y \in DevicePositions(procs[p]) :
              /\ x # y
              /\ ~DeviceAt(procs[p], x).file_locked
              /\ DeviceAt(procs[p], y).file_locked
              /\ DeviceAt(procs[p], x).lock_file = DeviceAt(procs[p], y).lock_file
              /\ HoldsLock(os, p, procs[p], y)

----------------------------------------------------------------------------
(* Vocabulary of the discovery properties *)

Probing(st) == st.pc \in {"probe_lock", "probe_unlock"}

\* devices_list.Initialize of platform k has returned in st and no later
\* Initialize of the same platform object is under way
Returned(st, k) ==
    /\ st.platforms[k].is_initialized
    /\ \/ st.pc = "ready"
       \/ st.pc = "aborted" /\ st.fatal \in {"lock_failed", "platform_not_found"}
       \/ (Probing(st) \/ st.pc = "aborted") /\ k # st.cur

\* the list of platform k has been through device_list.sort()
Sorted(st, k) ==
    \/ Returned(st, k)
    \/ st.pc = "aborted" /\ st.fatal = "no_context" /\ k = st.cur

\* every device of platform st.cur has been through Set_Information
Snapshotted(st, k) ==
    \/ Sorted(st, k)
    \/ st.pc = "aborted" /\ st.fatal = "all_in_use" /\ k = st.cur

Ids(list) == [j \in DOMAIN list |-> list[j].id]

\* the device of the machine that carries id in the platform the API lists q-th
HostDevice(q, id) == (host[q].cpus \o host[q].gpus)[id + 1]

----------------------------------------------------------------------------
(* C6: when devices_list.Initialize has returned, the preferred device is  *)
(* the first device of the sorted list on which Set_Context succeeded:     *)
(* Set_Context was called, in order, on exactly the devices up to it,      *)
(* failed on every one before it and succeeded on it; no device after it   *)
(* was tried.                                                              *)
C6_FirstSuccess ==
    \A p \in Procs : \A k \in DOMAIN procs[p].platforms :
        Returned(procs[p], k) =>
            LET pl   == procs[p].platforms[k]
                list == pl.device_list
                n    == pl.preferred_device
            IN  /\ n \in 1..Len(list)
                /\ Len(pl.attempts) = n
                /\ \A j \in 1..n : /\ pl.attempts[j].id = list[j].id
                                   /\ pl.attempts[j].ok = (j = n)
                /\ list[n].context = "ctx"
                /\ \A j \in 1..(n - 1) : list[j].context = "NULL"
                /\ \A j \in (n + 1)..Len(list) :
                      \A a \in DOMAIN pl.attempts : pl.attempts[a].id # list[j].id

\* [D0 fails, D1 succeeds, D2]: the preferred device is the second of three
C6_Witness ==
    \E p \in Procs : \E k \in DOMAIN procs[p].platforms :
        /\ Ready(p)
        /\ Len(procs[p].platforms[k].device_list) = 3
        /\ procs[p].platforms[k].preferred_device = 2
        /\ procs[p].platforms[k].attempts[1].ok = FALSE
        /\ procs[p].platforms[k].device_list[3].context = "NULL"

(* C7: all devices in use.  A process that ends with "all devices are in   *)
(* use" has every device of the platform marked in use, has called         *)
(* Set_Context on none and has not sorted the list (the devices stand in   *)
(* discovery order); and devices_list.Initialize never returns on a        *)
(* platform all of whose devices are marked in use.                        *)
C7_AllInUseAborts ==
    \A p \in Procs :
        /\ procs[p].fatal = "all_in_use" =>
              LET pl == procs[p].platforms[procs[p].cur]
              IN  /\ procs[p].pc = "aborted"
                  /\ \A j \in DOMAIN pl.device_list : pl.device_list[j].device_is_in_use
                  /\ pl.attempts = <<>>
                  /\ \A j \in DOMAIN pl.device_list : pl.device_list[j].id = j - 1
                  /\ ~pl.is_initialized =>
                        \A j \in DOMAIN pl.device_list :
                            /\ pl.device_list[j].context = "NULL"
                            /\ pl.device_list[j].parent_platform = "NULL"
        /\ \A k \in DOMAIN procs[p].platforms :
              Returned(procs[p], k) =>
                 \E j \in DOMAIN procs[p].platforms[k].device_list :
                     ~procs[p].platforms[k].device_list[j].device_is_in_use

\* the abort on a list that sorting would have reordered: both devices in
\* use, the one with fewer compute units first
C7_Witness ==
    \E p \in Procs :
        /\ procs[p].fatal = "all_in_use"
        /\ LET list == procs[p].platforms[procs[p].cur].device_list
           IN  /\ Len(list) >= 2
               /\ list[1].max_compute_units < list[2].max_compute_units

(* C8: the sorted list.  No device in use stands before a device not in    *)
(* use; among devices of equal in-use status the compute units do not      *)
(* increase from front to back; the list holds every discovered device     *)
(* once, with the snapshot taken at discovery; and on the example machine  *)
(* (CPU 4 free, GPU0 16 free, GPU1 32 in use) the order is GPU0, CPU, GPU1.*)
C8_SortedOrder ==
    \A p \in Procs : \A k \in DOMAIN procs[p].platforms :
        Sorted(procs[p], k) =>
            LET pl   == procs[p].platforms[k]
                list == pl.device_list
            IN  /\ \A a, b \in DOMAIN list : a < b =>
                      /\ ~(list[a].device_is_in_use /\ ~list[b].device_is_in_use)
                      /\ list[a].device_is_in_use = list[b].device_is_in_use =>
                            list[a].max_compute_units >= list[b].max_compute_units
                /\ Len(list) = Len(host[pl.id].cpus) + Len(host[pl.id].gpus)
                /\ {list[j].id : j \in DOMAIN list} = 0..(Len(list) - 1)
                /\ \A j \in DOMAIN list :
                      /\ list[j].max_compute_units = HostDevice(pl.id, list[j].id).units
                      /\ list[j].name = HostDevice(pl.id, list[j].id).name
                /\ ( /\ host = ExampleHost
                     /\ \A j \in DOMAIN list :
                           list[j].device_is_in_use = (list[j].id = 2) ) =>
                      Ids(list) = <<1, 0, 2>>

\* the example of the specification, reached
C8_Witness ==
    \E p \in Procs : \E k \in DOMAIN procs[p].platforms :
        /\ Ready(p)
        /\ host = ExampleHost
        /\ LET list == procs[p].platforms[k].device_list
           IN  /\ Ids(list) = <<1, 0, 2>>
               /\ [j \in DOMAIN list |-> list[j].device_is_in_use] = <<FALSE, FALSE, TRUE>>
               /\ [j \in DOMAIN list |-> list[j].max_compute_units] = <<16, 4, 32>>

(* C9: device ids.  Once every device of a platform has its snapshot, the  *)
(* ids are exactly 0..nb_cpu+nb_gpu-1, each once, where nb_cpu and nb_gpu  *)
(* are the counts the API reports; a device is a GPU exactly when its id   *)
(* is at least nb_cpu; and after sorting each id still names the device it *)
(* was given to.  While the devices are being probed, those already        *)
(* visited carry their position as id.                                     *)
C9_DeviceIds ==
    \A p \in Procs : \A k \in DOMAIN procs[p].platforms :
        LET st   == procs[p]
            pl   == st.platforms[k]
            list == pl.device_list
        IN  /\ Snapshotted(st, k) =>
                  /\ pl.nb_cpu = Len(host[pl.id].cpus)
                  /\ pl.nb_gpu = Len(host[pl.id].gpus)
                  /\ Len(list) = pl.nb_cpu + pl.nb_gpu
                  /\ {list[j].id : j \in DOMAIN list} = 0..(pl.nb_cpu + pl.nb_gpu - 1)
                  /\ \A j \in DOMAIN list :
                        /\ list[j].device_is_gpu = (list[j].id >= pl.nb_cpu)
                        /\ list[j].device =
                              IF list[j].id < pl.nb_cpu
                              THEN <<pl.id, "cpu", list[j].id + 1>>
                              ELSE <<pl.id, "gpu", list[j].id - pl.nb_cpu + 1>>
            /\ (Probing(st) /\ k = st.cur) =>
                  \A j \in 1..(st.it - 1) :
                      /\ list[j].id = j - 1
                      /\ list[j].device_is_gpu = (j > pl.nb_cpu)

\* one CPU and two GPUs, after a sort that moved them
C9_Witness ==
    \E p \in Procs : \E k \in DOMAIN procs[p].platforms :
        /\ Ready(p)
        /\ procs[p].platforms[k].nb_cpu = 1
        /\ procs[p].platforms[k].nb_gpu = 2
        /\ Ids(procs[p].platforms[k].device_list) = <<2, 0, 1>>

(* C10: platform offsets.  Every stored platform carries as offset its     *)
(* 0-based index in the order the API lists the platforms, whatever its    *)
(* vendor key; stored offsets are pairwise different; the loop's counter   *)
(* equals the index of the platform in hand.  The offset goes into the     *)
(* lock path of the platform's devices, and not into the choice of the     *)
(* platform: a sentinel hint selects the smallest key.                     *)
C10_Offsets ==
    \A p \in Procs :
        LET st == procs[p]
        IN  /\ \A k \in DOMAIN st.platforms :
                  /\ st.platforms[k].id_offset = st.platforms[k].id - 1
                  /\ Classify(host[st.platforms[k].id].vendor) = k
                  /\ \A j \in DOMAIN st.platforms :
                        j # k => st.platforms[j].id_offset # st.platforms[k].id_offset
                  /\ Sorted(st, k) =>
                        \A x \in DOMAIN st.platforms[k].device_list :
                            DevicePath(st, <<k, x>>) =
                               HostPath(host, <<st.platforms[k].id_offset + 1,
                                                st.platforms[k].device_list[x].id + 1>>)
            /\ Probing(st) => st.platform_id_offset = st.i - 1
            /\ (Ready(p) /\ st.arg \in {"-1", ""}) =>
                  /\ st.preferred_platform \in DOMAIN st.platforms
                  /\ \A j \in DOMAIN st.platforms :
                        KeyRank(st.preferred_platform) <= KeyRank(j)

\* two platforms of different vendors, the one listed second (offset 1)
\* selected by the sentinel hint because its key is the smaller
C10_Witness ==
    \E p \in Procs :
        /\ Ready(p)
        /\ procs[p].arg = "-1"
        /\ Cardinality(DOMAIN procs[p].platforms) = 2
        /\ procs[p].platforms[procs[p].preferred_platform].id_offset = 1

----------------------------------------------------------------------------
(* C11: the sentinel hints.  Once Initialize(hint) has returned: if the    *)
(* hint was "-1" or "", the preferred platform is a stored key that no     *)
(* stored key precedes in the order of the strings, and operator[] gives   *)
(* that platform for "-1" and for "" alike; any other hint is itself the   *)
(* preferred platform, stored or not.                                      *)
C11_SentinelHint ==
    \A p \in Procs :
        Ready(p) =>
            LET st == procs[p]
            IN  IF st.arg = "-1" \/ st.arg = ""
                THEN /\ st.preferred_platform \in DOMAIN st.platforms
                     /\ \A j \in DOMAIN st.platforms :
                           KeyRank(st.preferred_platform) <= KeyRank(j)
                     /\ Lookup(st, "-1") = st.preferred_platform
                     /\ Lookup(st, "") = st.preferred_platform
                     /\ Lookup(st, st.preferred_platform) = st.preferred_platform
                ELSE st.preferred_platform = st.arg

\* the hint "" on a machine whose API lists an nvidia platform before an
\* amd one: "amd" is selected, and the only lock the process holds is on
\* the preferred device of that platform
C11_Witness ==
    \E p \in Procs :
        /\ Ready(p)
        /\ procs[p].arg = ""
        /\ DOMAIN procs[p].platforms = {"amd", "nvidia"}
        /\ procs[p].platforms["nvidia"].id = 1
        /\ procs[p].preferred_platform = "amd"
        /\ LET pl == procs[p].platforms["amd"]
           IN  pl.device_list[pl.preferred_device].file_locked
        /\ \A x \in LockedDevices(procs[p]) : x[1] = "amd"

----------------------------------------------------------------------------
(* Lock paths as a function of their four inputs *)

\* offsets and device ids up to two digits
MaxNumber == 11

PathNumbers == 0..MaxNumber

\* names that differ in characters the sanitizer replaces, and names that
\* differ in letters or digits
PathPlatformNames ==
    {PlatformName(VNvidia), PlatformName(VAmd), <<"A","M","D","_","A","P","P">>}
PathDeviceNames == {GpuName, <<"G","T","X","-","4","8","0">>, CpuName}

\* <<offset, device id, platform name, device name>>
PathInputs == PathNumbers \X PathNumbers \X PathPlatformNames \X PathDeviceNames

PathOfInput(t) == get_lock_filename(t[2], t[1], t[3], t[4])

\* the text the path is made from, before sanitizing
TextOfInput(t) == string_base(t[1], t[2], t[3], t[4])

PathTable == [t \in PathInputs |-> PathOfInput(t)]

\* the path is the prefix, the text with '_' for every character that is
\* neither letter nor digit, character by character, and the suffix
PathShape ==
    \A t \in PathInputs :
        LET f == PathTable[t]
            s == TextOfInput(t)
            n == Len(LockPrefix)
        IN  /\ Len(f) = n + Len(s) + Len(LockSuffix)
            /\ SubSeq(f, 1, n) = <<"/","t","m","p","/","g","p","u">>
            /\ SubSeq(f, n + Len(s) + 1, Len(f)) = <<".","l","c","k">>
            /\ \A i \in 1..Len(s) :
                  f[n + i] = IF s[i] \in Range(UpperChars) \cup Range(LowerChars)
                                        \cup Range(DigitChars)
                             THEN s[i] ELSE "_"

\* with the names fixed, another offset or another device id is another path
PathNumbersInjective ==
    \A pn \in PathPlatformNames, dn \in PathDeviceNames :
        \A a, b \in PathNumbers \X PathNumbers :
            a # b => PathTable[<<a[1], a[2], pn, dn>>] # PathTable[<<b[1], b[2], pn, dn>>]

\* two inputs share a path exactly when their sanitized texts are equal
PathCollisions ==
    \A a, b \in (0..1) \X (0..1) \X PathPlatformNames \X PathDeviceNames :
        (PathTable[a] = PathTable[b]) <=>
            ([i \in DOMAIN TextOfInput(a) |->
                 IF isalpha(TextOfInput(a)[i]) \/ isdigit(TextOfInput(a)[i])
                 THEN TextOfInput(a)[i] ELSE "_"]
             = [i \in DOMAIN TextOfInput(b) |->
                 IF isalpha(TextOfInput(b)[i]) \/ isdigit(TextOfInput(b)[i])
                 THEN TextOfInput(b)[i] ELSE "_"])

----------------------------------------------------------------------------
\* the devices of process p that Verify_if_Device_is_Used has answered for
Probed(st) == {x \in DevicePositions(st) : DeviceAt(st, x).probe # "none"}

(* C13: the probe's failures.  A device is marked in use only when the     *)
(* probe's flock failed with EWOULDBLOCK; a probe whose open() failed, or  *)
(* whose flock failed otherwise, ends the process and marks nothing; a     *)
(* probe that got the lock marks the device not in use.                    *)
C13_ProbeFailures ==
    \A p \in Procs : \A x \in Probed(procs[p]) :
        LET d == DeviceAt(procs[p], x)
        IN  /\ d.device_is_in_use => d.probe = "ewouldblock"
            /\ d.probe \in {"open_failed", "flock_failed"} =>
                  /\ procs[p].pc = "aborted"
                  /\ procs[p].fatal \notin {"all_in_use", "no_context", "lock_failed"}
            /\ d.probe = "free" => ~d.device_is_in_use

(* What Verify_if_Device_is_Used does: a device is marked in use exactly   *)
(* when LockFile returned -1, whatever made it fail, and the process goes  *)
(* on to the next device.                                                  *)
C13_AnyFailureIsInUse ==
    \A p \in Procs : \A x \in Probed(procs[p]) :
        LET d == DeviceAt(procs[p], x)
        IN  d.device_is_in_use = (d.probe \in {"ewouldblock", "open_failed", "flock_failed"})

\* Initialize has returned with a device marked in use whose lock file
\* nobody held: the probe's open() had failed
C13_Witness ==
    \E p \in Procs : \E x \in Probed(procs[p]) :
        /\ Ready(p)
        /\ DeviceAt(procs[p], x).probe = "open_failed"
        /\ DeviceAt(procs[p], x).device_is_in_use
        /\ Holders(os, DevicePath(procs[p], x)) = {}

----------------------------------------------------------------------------
\* the process has ended: main() returned, or abort() was called
Dead(p) == procs[p].pc \in {"aborted", "exited"}

(* C14: no reservation outlives its process.  A process that has ended,    *)
(* by returning from main() or by abort(), has no open description and so  *)
(* holds no lock; and a Lock() that fails although every system call       *)
(* worked fails because of a lock held by a process that still runs.       *)
C14_NoOrphanLocks ==
    /\ [](\A p \in Procs : Dead(p) => \A e \in os.ofds : e.proc # p)
    /\ [][\A q \in Procs : \A key \in UserKeys(procs[q]) :
             ( /\ LockBestDeviceKey(q, key)
               /\ Lookup(procs[q], key) # ""
               /\ faults' = faults
               /\ procs'[q].pc = "aborted" ) =>
                LET x == PreferredPosition(procs[q], Lookup(procs[q], key))
                IN  \E e \in os.ofds :
                       /\ e.path = DevicePath(procs[q], x)
                       /\ e.locked
                       /\ e.proc \in Procs
                       /\ ~Dead(e.proc)
      ]_vars

\* process p was ended by abort() while it held the lock of a device (no
\* destructor ran: its file_locked is still TRUE), and process q has locked
\* that device afterwards
C14_Witness ==
    \E p, q \in Procs :
        /\ p # q
        /\ procs[p].pc = "aborted"
        /\ Ready(q)
        /\ \E x \in LockedDevices(procs[p]), y \in LockedDevices(procs[q]) :
              /\ DevicePath(procs[p], x) = DevicePath(procs[q], y)
              /\ HoldsLock(os, q, procs[q], y)
              /\ ~HoldsLock(os, p, procs[p], x)

----------------------------------------------------------------------------
(* The classification table of the specification *)

VendorTable ==
    << [key |-> "nvidia", words |-> {<<"n","v","i","d","i","a">>}],
       [key |-> "amd",    words |-> {<<"a","d","v","a","n","c","e","d"," ","m","i","c",
                                       "r","o"," ","d","e","v","i","c","e","s">>,
                                     <<"a","m","d">>}],
       [key |-> "intel",  words |-> {<<"i","n","t","e","l">>}],
       [key |-> "apple",  words |-> {<<"a","p","p","l","e">>}] >>

\* the entries of the table with a word that occurs in the lower-cased vendor
TableMatches(v) ==
    {i \in DOMAIN VendorTable :
        \E w \in VendorTable[i].words :
            \E a \in 1..Len(v) :
               /\ a + Len(w) - 1 <= Len(v)
               /\ \A b \in 1..Len(w) :
                     (IF v[a + b - 1] \in Range(UpperChars)
                      THEN LowerChars[CHOOSE c \in 1..26 : UpperChars[c] = v[a + b - 1]]
                      ELSE v[a + b - 1]) = w[b]}

\* vendor strings: those of the machines, short and mixed-case forms, and
\* strings in which the words of several entries occur
VendorSamples ==
    {VNvidia, VAmd, VIntel, VOther,
     <<"A","M","D">>, <<"A","p","p","l","e">>, <<"G","e","n","u","i","n","e","I","n","t","e","l">>,
     <<"a","p","p","l","e"," ","a","m","d">>, <<"I","n","t","e","l","/","N","V","I","D","I","A">>,
     <<"n","v","i","d">>, <<>>}

\* Classify gives the key of the first matching entry, "unknown" if none
ClassifyFollowsTable ==
    \A v \in VendorSamples :
        IF TableMatches(v) = {} THEN Classify(v) = "unknown"
        ELSE \E i \in TableMatches(v) :
                /\ \A j \in TableMatches(v) : i <= j
                /\ Classify(v) = VendorTable[i].key

(* C15: Initialize returns only on a machine with at least one platform    *)
(* all of whose vendors match the table; it ends the process on zero       *)
(* platforms and at the first platform whose vendor matches no entry.      *)
(* When it has returned the map is not empty and each key is the key of    *)
(* the first entry of the table (nvidia, amd, intel, apple) with a word    *)
(* occurring in the lower-cased vendor string of the platform stored       *)
(* under it.                                                               *)
C15_PlatformsOrAbort ==
    /\ ClassifyFollowsTable
    /\ \A p \in Procs :
          LET st == procs[p]
          IN  /\ Ready(p) =>
                    /\ Len(host) >= 1
                    /\ \A i \in DOMAIN host : TableMatches(host[i].vendor) # {}
                    /\ DOMAIN st.platforms # {}
                    /\ DOMAIN st.platforms \subseteq {"nvidia", "amd", "intel", "apple"}
              /\ \A k \in DOMAIN st.platforms :
                    \E i \in TableMatches(host[st.platforms[k].id].vendor) :
                       /\ \A j \in TableMatches(host[st.platforms[k].id].vendor) : i <= j
                       /\ VendorTable[i].key = k
              /\ st.pc \notin {"start", "absent"} /\ Len(host) = 0 =>
                    st.pc = "aborted" /\ st.fatal = "no_platform"
              /\ st.fatal = "no_platform" => Len(host) = 0 /\ st.platforms = EmptyMap
              /\ st.fatal = "unknown_vendor" =>
                    /\ st.pc = "aborted"
                    /\ TableMatches(host[st.i].vendor) = {}
                    /\ \A i \in 1..(st.i - 1) : TableMatches(host[i].vendor) # {}
              /\ (st.pc \notin {"start", "absent"}
                  /\ \E i \in DOMAIN host : TableMatches(host[i].vendor) = {}) =>
                    ~Ready(p)

\* Initialize has returned on a machine with an nvidia platform and an
\* Intel one; the strings with the words of two entries go to the earlier
C15_Witness ==
    /\ \E p \in Procs :
          /\ Ready(p)
          /\ DOMAIN procs[p].platforms = {"intel", "nvidia"}
          /\ procs[p].platforms["intel"].vendor = VIntel
    /\ Classify(<<"I","n","t","e","l","/","N","V","I","D","I","A">>) = "nvidia"
    /\ Classify(<<"a","p","p","l","e"," ","a","m","d">>) = "amd"

----------------------------------------------------------------------------
\* a step of process p inside platforms_list.Initialize
DiscoveryStep(p) == Begin(p) \/ ProbeLock(p) \/ ProbeUnlock(p)

OfdsOf(o, p) == {e \in o.ofds : e.proc = p}

(* C16: discovery reserves nothing.  A step of Initialize leaves the open  *)
(* descriptions of all other processes as they are and sets file_locked    *)
(* on no device; after it the process has no description at all, except   *)
(* between the LockFile and the UnlockFile of one probe, where it has      *)
(* exactly the probe's, so when Initialize has returned it holds no lock.  *)
(* The set of devices with file_locked changes only in a step of           *)
(* Lock_Best_Device, of Unlock or of the destructors.                      *)
C16_DiscoveryReservesNothing ==
    [][\A p \in Procs :
          /\ DiscoveryStep(p) =>
                /\ os'.ofds \ OfdsOf(os', p) = os.ofds \ OfdsOf(os, p)
                /\ LockedDevices(procs'[p]) = {}
                /\ \A x \in DevicePositions(procs'[p]) :
                      DeviceAt(procs'[p], x).lock_file = NoFd
                /\ IF procs'[p].pc = "probe_unlock"
                   THEN OfdsOf(os', p) =
                           {[proc |-> p, fd |-> procs'[p].probe_fd, locked |-> TRUE,
                             path |-> PathOf(DeviceAt(procs'[p], <<procs'[p].cur, procs'[p].it>>),
                                             procs'[p].platforms[procs'[p].cur])]}
                   ELSE OfdsOf(os', p) = {}
          /\ LockedDevices(procs'[p]) # LockedDevices(procs[p]) =>
                LockBestDevice(p) \/ UnlockBestDevice(p) \/ Exit(p)
      ]_vars

\* process p has come back from Initialize next to process q, which holds a
\* reservation: p found that device in use and another one free (it took
\* and released the probe lock), and holds nothing
C16_Witness ==
    \E p, q \in Procs :
        /\ p # q /\ Ready(p) /\ Ready(q)
        /\ LockedDevices(procs[p]) = {}
        /\ OfdsOf(os, p) = {}
        /\ \E y \in LockedDevices(procs[q]) : HoldsLock(os, q, procs[q], y)
        /\ \E x, z \in DevicePositions(procs[p]) :
              /\ DeviceAt(procs[p], x).probe = "ewouldblock"
              /\ DeviceAt(procs[p], z).probe = "free"

----------------------------------------------------------------------------
\* some process holds the lock of the path through a Lock() that returned
\* and that no Unlock() has undone
ExplicitlyReserved(path) ==
    \E r \in Procs : \E y \in LockedDevices(procs[r]) :
        /\ DevicePath(procs[r], y) = path
        /\ HoldsLock(os, r, procs[r], y)

(* C17: the probe disturbs no other process.  When every system call       *)
(* works, a probe marks its device in use only if some process holds an    *)
(* explicit reservation of it, and a Lock() ends its process only if some  *)
(* other process holds an explicit reservation of the device: the lock a   *)
(* probe holds for a moment makes neither happen.                          *)
C17_ProbeHarmless ==
    [][\A q \in Procs :
          /\ ( /\ ProbeLock(q)
               /\ faults' = faults
               /\ \E j \in DOMAIN procs'[q].platforms[procs[q].cur].device_list :
                     LET d == procs'[q].platforms[procs[q].cur].device_list[j]
                     IN  d.id = procs[q].it - 1 /\ d.device_is_in_use ) =>
                ExplicitlyReserved(PathOf(SnapshotAt(procs[q]),
                                          procs[q].platforms[procs[q].cur]))
          /\ \A key \in UserKeys(procs[q]) :
                ( /\ LockBestDeviceKey(q, key)
                  /\ Lookup(procs[q], key) # ""
                  /\ faults' = faults
                  /\ procs'[q].pc = "aborted" ) =>
                   ExplicitlyReserved(DevicePath(procs[q],
                       PreferredPosition(procs[q], Lookup(procs[q], key))))
      ]_vars

(* What the code does: a probe that finds the lock taken marks the device  *)
(* in use whoever holds the lock, a reservation or another probe.          *)
C17_ProbeSeesAnyHolder ==
    [][\A q \in Procs :
          ( /\ ProbeLock(q)
            /\ faults' = faults ) =>
             LET path == PathOf(SnapshotAt(procs[q]), procs[q].platforms[procs[q].cur])
             IN  (\E j \in DOMAIN procs'[q].platforms[procs[q].cur].device_list :
                     LET d == procs'[q].platforms[procs[q].cur].device_list[j]
                     IN  d.id = procs[q].it - 1 /\ d.probe = "ewouldblock")
                 <=> Holders(os, path) # {}
      ]_vars

\* process q has ended with "all devices are in use" although no device was
\* ever reserved: the other process is still inside Initialize, and what q
\* ran into was the lock of its probe
C17_Witness ==
    \E p, q \in Procs :
        /\ p # q
        /\ faults = 0
        /\ Probing(procs[p])
        /\ procs[q].fatal = "all_in_use"
        /\ \A r \in Procs : LockedDevices(procs[r]) = {}

----------------------------------------------------------------------------
\* Set_Context has failed on every device it was called on, and it was called
AllAttemptsFailed(pl) ==
    /\ pl.attempts # <<>>
    /\ \A j \in DOMAIN pl.attempts : ~pl.attempts[j].ok

(* C18: context failures.  devices_list.Initialize ends the process in the *)
(* context walk exactly when Set_Context was called on every device of the *)
(* list and failed on each; a failure followed by a success is not         *)
(* surfaced.  Whenever it has returned, the preferred device is a device   *)
(* of the platform's list, holds a context, and is_initialized is TRUE.    *)
C18_ContextFailures ==
    \A p \in Procs : \A k \in DOMAIN procs[p].platforms :
        LET st   == procs[p]
            pl   == st.platforms[k]
            list == pl.device_list
        IN  /\ (st.fatal = "no_context" /\ k = st.cur) =>
                  /\ st.pc = "aborted"
                  /\ pl.preferred_device = 0
                  /\ Len(pl.attempts) = Len(list)
                  /\ AllAttemptsFailed(pl)
                  /\ \A j \in DOMAIN list :
                        pl.attempts[j].id = list[j].id /\ list[j].context = "NULL"
            /\ AllAttemptsFailed(pl) =>
                  /\ st.fatal = "no_context" /\ k = st.cur
                  /\ Len(pl.attempts) = Len(list)
            /\ Returned(st, k) =>
                  /\ pl.preferred_device \in DOMAIN list
                  /\ list[pl.preferred_device].context = "ctx"
                  /\ list[pl.preferred_device].parent_platform = k
                  /\ pl.is_initialized
                  /\ \E j \in DOMAIN pl.attempts : pl.attempts[j].ok

\* Initialize has returned although Set_Context failed on the first two
\* devices of a list of three: the third is the preferred device
C18_Witness ==
    \E p \in Procs : \E k \in DOMAIN procs[p].platforms :
        /\ Ready(p)
        /\ Len(procs[p].platforms[k].device_list) = 3
        /\ procs[p].platforms[k].preferred_device = 3
        /\ ~procs[p].platforms[k].attempts[1].ok
        /\ ~procs[p].platforms[k].attempts[2].ok
        /\ procs[p].platforms[k].device_list[3].context = "ctx"

----------------------------------------------------------------------------
(* C19: the device counts.  For every stored platform, nb_gpu and nb_cpu   *)
(* are the numbers of GPUs and CPUs the API has for the platform the       *)
(* object was last initialized for, zero where it reports "device not      *)
(* found", also on an object initialized before; the process ends at the   *)
(* counts exactly when both are zero, never on a count query that found    *)
(* no device of one kind; and past the resize the list has nb_cpu + nb_gpu *)
(* entries.                                                                *)
C19_DeviceCounts ==
    \A p \in Procs : \A k \in DOMAIN procs[p].platforms :
        LET st == procs[p]
            pl == st.platforms[k]
        IN  /\ pl.nb_gpu = Len(host[pl.id].gpus)
            /\ pl.nb_cpu = Len(host[pl.id].cpus)
            /\ (st.fatal = "no_device" /\ k = st.cur) <=>
                  (k = st.cur /\ Len(host[pl.id].gpus) + Len(host[pl.id].cpus) = 0)
            /\ st.fatal # "cl_error"
            /\ ~(st.fatal = "no_device" /\ k = st.cur) =>
                  Len(pl.device_list) = pl.nb_cpu + pl.nb_gpu

(* What the code does: a count the query found is stored; where the query  *)
(* ends "device not found" the field keeps what the API left in it, zero   *)
(* or the count of the platform the object was initialized for before.     *)
C19_CountsFoundOrLeft ==
    \A p \in Procs : \A k \in DOMAIN procs[p].platforms :
        LET st == procs[p]
            pl == st.platforms[k]
        IN  /\ Len(host[pl.id].gpus) > 0 => pl.nb_gpu = Len(host[pl.id].gpus)
            /\ Len(host[pl.id].cpus) > 0 => pl.nb_cpu = Len(host[pl.id].cpus)
            /\ pl.nb_gpu # Len(host[pl.id].gpus) =>
                  \E q \in 1..(pl.id - 1) :
                     Classify(host[q].vendor) = k /\ pl.nb_gpu = Len(host[q].gpus)
            /\ pl.nb_cpu # Len(host[pl.id].cpus) =>
                  \E q \in 1..(pl.id - 1) :
                     Classify(host[q].vendor) = k /\ pl.nb_cpu = Len(host[q].cpus)
            /\ ~(st.fatal = "no_device" /\ k = st.cur) =>
                  Len(pl.device_list) = pl.nb_cpu + pl.nb_gpu

\* two platforms of one vendor, the first with a GPU only, the second with
\* a CPU only: initialized for the second, the object still says one GPU,
\* and the process has ended in the GPU block
C19_Witness ==
    \E p \in Procs :
        /\ procs[p].fatal = "cl_error"
        /\ LET pl == procs[p].platforms[procs[p].cur]
           IN  /\ pl.id = 2
               /\ host[2].gpus = <<>>
               /\ pl.nb_gpu = 1
               /\ pl.nb_cpu = 1
               /\ Len(pl.device_list) = 2

----------------------------------------------------------------------------
\* the keys of the machine's platforms, and the last platform of a key
HostKeys == {Classify(host[i].vendor) : i \in DOMAIN host}

LastOfKey(k) ==
    CHOOSE i \in DOMAIN host :
        /\ Classify(host[i].vendor) = k
        /\ \A j \in DOMAIN host : Classify(host[j].vendor) = k => j <= i

(* C20: one slot per vendor key.  When Initialize has returned, the map    *)
(* has one platform for each vendor key occurring on the machine, and the  *)
(* platform stored under a key is the last one the API lists for that      *)
(* vendor: its id, its offset, its name and vendor, and a device list that *)
(* holds that platform's devices and no device of an earlier platform.     *)
C20_SingleSlot ==
    \A p \in Procs :
        Ready(p) =>
            /\ DOMAIN procs[p].platforms = HostKeys
            /\ Cardinality(DOMAIN procs[p].platforms) = Cardinality(HostKeys)
            /\ \A k \in DOMAIN procs[p].platforms :
                  LET pl == procs[p].platforms[k]
                      q  == LastOfKey(k)
                  IN  /\ pl.id = q
                      /\ pl.key = k
                      /\ pl.id_offset = q - 1
                      /\ pl.name = host[q].name
                      /\ pl.vendor = host[q].vendor
                      /\ Len(pl.device_list) = Len(host[q].cpus) + Len(host[q].gpus)
                      /\ \A j \in DOMAIN pl.device_list :
                            LET d == pl.device_list[j]
                            IN  /\ d.device[1] = q
                                /\ d.parent_platform = k
                                /\ d.name = HostDevice(q, d.id).name
                                /\ d.max_compute_units = HostDevice(q, d.id).units
                                /\ d.device_is_gpu = (d.id >= Len(host[q].cpus))

\* two platforms of one vendor, the first with a GPU, the second with a CPU:
\* one platform is stored, the second, and its only device is the CPU
C20_Witness ==
    \E p \in Procs :
        /\ Ready(p)
        /\ Len(host) = 2
        /\ Len(host[1].gpus) = 1
        /\ Cardinality(DOMAIN procs[p].platforms) = 1
        /\ \A k \in DOMAIN procs[p].platforms :
              /\ procs[p].platforms[k].id = 2
              /\ procs[p].platforms[k].id_offset = 1
              /\ Len(procs[p].platforms[k].device_list) = 1
              /\ ~procs[p].platforms[k].device_list[1].device_is_gpu

----------------------------------------------------------------------------
(* The comparator as a relation on devices *)

\* devices of every in-use status and compute-unit count, two ids of each
ComparatorDevices ==
    {[OpenCL_device EXCEPT !.device_is_in_use = u, !.max_compute_units = c, !.id = i] :
        u \in BOOLEAN, c \in 0..(MaxUnits + 1), i \in 0..1}

Incomparable(a, b) == ~OperatorLess(a, b) /\ ~OperatorLess(b, a)

\* irreflexive, asymmetric, transitive, incomparability transitive, and the
\* relation is the one the specification words, on the set S of devices
StrictWeakOrderOn(S) ==
    /\ \A a \in S : ~OperatorLess(a, a)
    /\ \A a, b \in S : OperatorLess(a, b) => ~OperatorLess(b, a)
    /\ \A a, b, c \in S : OperatorLess(a, b) /\ OperatorLess(b, c) => OperatorLess(a, c)
    /\ \A a, b, c \in S : Incomparable(a, b) /\ Incomparable(b, c) => Incomparable(a, c)
    /\ \A a, b \in S :
          /\ OperatorLess(a, b) <=>
                \/ ~a.device_is_in_use /\ b.device_is_in_use
                \/ /\ a.device_is_in_use = b.device_is_in_use
                   /\ a.max_compute_units > b.max_compute_units
          /\ Incomparable(a, b) <=>
                /\ a.device_is_in_use = b.device_is_in_use
                /\ a.max_compute_units = b.max_compute_units

ComparatorLaws == StrictWeakOrderOn(ComparatorDevices)

(* C21: operator< is a strict weak ordering.  On devices of every in-use   *)
(* status and compute-unit count, and on the devices of every list a run   *)
(* builds, a < b holds exactly when a is free and b in use, or both have   *)
(* the same status and a has more compute units; the relation is           *)
(* irreflexive, asymmetric and transitive, and two devices are             *)
(* incomparable exactly when they agree on status and compute units,       *)
(* which is transitive.                                                    *)
C21_StrictWeakOrder ==
    /\ ComparatorLaws
    /\ \A p \in Procs : \A k \in DOMAIN procs[p].platforms :
          StrictWeakOrderOn(Range(procs[p].platforms[k].device_list))

\* a sorted list of three devices on which the comparator orders the first
\* before the two others and leaves those two, different devices, tied
C21_Witness ==
    \E p \in Procs : \E k \in DOMAIN procs[p].platforms :
        LET list == procs[p].platforms[k].device_list
        IN  /\ Ready(p)
            /\ Len(list) = 3
            /\ OperatorLess(list[1], list[2])
            /\ OperatorLess(list[1], list[3])
            /\ Incomparable(list[2], list[3])
            /\ list[2].id # list[3].id

----------------------------------------------------------------------------
\* a stands before b in the order of preference with ties broken by id
Before(a, b) ==
    \/ ~a.device_is_in_use /\ b.device_is_in_use
    \/ /\ a.device_is_in_use = b.device_is_in_use
       /\ \/ a.max_compute_units > b.max_compute_units
          \/ a.max_compute_units = b.max_compute_units /\ a.id < b.id

(* C22: ties keep discovery order.  In a sorted list, of two devices with  *)
(* the same in-use status and the same compute units the one with the      *)
(* smaller id stands first, so a CPU stands before a GPU it is tied with.  *)
(* The list is therefore the one arrangement of the platform's devices by  *)
(* in-use status, compute units and id, and the preferred device is the    *)
(* first device of that arrangement on which Set_Context succeeded.        *)
C22_TiesKeepDiscoveryOrder ==
    \A p \in Procs : \A k \in DOMAIN procs[p].platforms :
        Sorted(procs[p], k) =>
            LET pl   == procs[p].platforms[k]
                list == pl.device_list
            IN  /\ \A a, b \in DOMAIN list :
                      a < b =>
                         /\ Before(list[a], list[b])
                         /\ Incomparable(list[a], list[b]) =>
                               /\ list[a].id < list[b].id
                               /\ list[a].device_is_gpu => list[b].device_is_gpu
                /\ Returned(procs[p], k) =>
                      /\ pl.attempts[pl.preferred_device].ok
                      /\ \A j \in 1..(pl.preferred_device - 1) : ~pl.attempts[j].ok

\* a CPU and two GPUs, all free and with the same compute units: the sorted
\* list is CPU, GPU0, GPU1, and the preferred device is the second one
\* because Set_Context failed on the CPU
C22_Witness ==
    \E p \in Procs : \E k \in DOMAIN procs[p].platforms :
        LET pl   == procs[p].platforms[k]
            list == pl.device_list
        IN  /\ Ready(p)
            /\ Len(list) = 3
            /\ \A j \in 1..3 : ~list[j].device_is_in_use
                               /\ list[j].max_compute_units = list[1].max_compute_units
            /\ Ids(list) = <<0, 1, 2>>
            /\ ~list[1].device_is_gpu /\ list[2].device_is_gpu
            /\ pl.preferred_device = 2

----------------------------------------------------------------------------
(* C23: the destructor.  ~OpenCL_device applied to any device of a running *)
(* process leaves it without context and without lock: the context is      *)
(* released, then Unlock() closes the device's own description if          *)
(* file_locked was set, and nothing else changes; applied to a device with *)
(* neither it changes nothing.  When main() returns, every device of the   *)
(* process has gone through it and no other process has lost a lock.       *)
C23_Destructor ==
    /\ [](\A p \in Procs : Ready(p) =>
             \A x \in DevicePositions(procs[p]) :
                LET d == DeviceAt(procs[p], x)
                    r == Destroy(d, os, p)
                IN  /\ r.dev = [d EXCEPT !.context = "NULL", !.file_locked = FALSE]
                    /\ r.os.files = os.files
                    /\ r.os.ofds =
                          IF d.file_locked
                          THEN os.ofds \ {e \in os.ofds : e.proc = p /\ e.fd = d.lock_file}
                          ELSE os.ofds
                    /\ r = Unlock([d EXCEPT !.context = "NULL"], os, p)
                    /\ (d.context = "NULL" /\ ~d.file_locked) =>
                          r = [dev |-> d, os |-> os])
    /\ [][\A p \in Procs :
             Exit(p) =>
                /\ DevicePositions(procs'[p]) = DevicePositions(procs[p])
                /\ \A x \in DevicePositions(procs[p]) :
                      /\ DeviceAt(procs'[p], x).context = "NULL"
                      /\ ~DeviceAt(procs'[p], x).file_locked
                      /\ DeviceAt(procs'[p], x) =
                            [DeviceAt(procs[p], x) EXCEPT !.context = "NULL",
                                                          !.file_locked = FALSE]
                /\ OfdsOf(os', p) = {}
                /\ os'.ofds \ OfdsOf(os', p) = os.ofds \ OfdsOf(os, p)
      ]_vars

\* a process has returned from main(): one of its devices had been locked
\* (lock_file names a descriptor) and now has neither lock nor context, and
\* another process holds the lock of that device
C23_Witness ==
    \E p, q \in Procs :
        /\ p # q
        /\ procs[p].pc = "exited"
        /\ Ready(q)
        /\ \E x \in DevicePositions(procs[p]), y \in LockedDevices(procs[q]) :
              /\ DeviceAt(procs[p], x).lock_file # NoFd
              /\ DeviceAt(procs[p], x).context = "NULL"
              /\ ~DeviceAt(procs[p], x).file_locked
              /\ DevicePath(procs[p], x) = DevicePath(procs[q], y)
              /\ HoldsLock(os, q, procs[q], y)

----------------------------------------------------------------------------
\* a device without its reservation state
WithoutReservation(d) == [d EXCEPT !.lock_file = NoFd, !.file_locked = FALSE]

(* C24: what Lock() and Unlock() leave alone.  A step of Lock_Best_Device  *)
(* or of Unlock changes, in the process that takes it, nothing but         *)
(* lock_file and file_locked of devices (and, when Lock() fails, the end   *)
(* of the process): every device keeps its in-use flag, its snapshot, its  *)
(* id, its context and its place in the list, every platform its          *)
(* preferred device, and the other processes' records stay as they are.    *)
C24_LockFrame ==
    [][\A p \in Procs :
          (LockBestDevice(p) \/ UnlockBestDevice(p)) =>
             /\ DOMAIN procs'[p].platforms = DOMAIN procs[p].platforms
             /\ procs'[p].preferred_platform = procs[p].preferred_platform
             /\ \A k \in DOMAIN procs[p].platforms :
                   LET old == procs[p].platforms[k]
                       new == procs'[p].platforms[k]
                   IN  /\ new.preferred_device = old.preferred_device
                       /\ [new EXCEPT !.device_list = <<>>] = [old EXCEPT !.device_list = <<>>]
                       /\ Len(new.device_list) = Len(old.device_list)
                       /\ \A j \in DOMAIN old.device_list :
                             /\ WithoutReservation(new.device_list[j])
                                   = WithoutReservation(old.device_list[j])
                             /\ new.device_list[j].device_is_in_use
                                   = old.device_list[j].device_is_in_use
                             /\ new.device_list[j].context = old.device_list[j].context
                             /\ new.device_list[j].id = old.device_list[j].id
             /\ \A q \in Procs \ {p} : procs'[q] = procs[q]
      ]_vars

\* process p holds the lock of a device its flag calls free, and calls in
\* use a device whose lock nobody holds any more
C24_Witness ==
    \E p \in Procs :
        /\ Ready(p)
        /\ \E x, y \in DevicePositions(procs[p]) :
              /\ DeviceAt(procs[p], x).file_locked
              /\ HoldsLock(os, p, procs[p], x)
              /\ ~DeviceAt(procs[p], x).device_is_in_use
              /\ DeviceAt(procs[p], y).device_is_in_use
              /\ DeviceAt(procs[p], y).probe = "ewouldblock"
              /\ Holders(os, DevicePath(procs[p], y)) = {}

----------------------------------------------------------------------------
\* Set_Context was called on the device with this id
Attempted(pl, id) == \E a \in DOMAIN pl.attempts : pl.attempts[a].id = id

(* C25: the walk goes on into the devices marked in use.  When             *)
(* devices_list.Initialize has returned, some device is free, and the      *)
(* preferred device is marked in use exactly when Set_Context was called   *)
(* on every free device and failed on each; it then is the first in-use    *)
(* device on which Set_Context succeeded.  The process ends in the walk    *)
(* only after Set_Context was called on the in-use devices too.            *)
C25_InUsePreferred ==
    \A p \in Procs : \A k \in DOMAIN procs[p].platforms :
        LET st   == procs[p]
            pl   == st.platforms[k]
            list == pl.device_list
            n    == pl.preferred_device
        IN  /\ Returned(st, k) =>
                  /\ \E j \in DOMAIN list : ~list[j].device_is_in_use
                  /\ list[n].device_is_in_use <=>
                        \A j \in DOMAIN list :
                            ~list[j].device_is_in_use =>
                                /\ Attempted(pl, list[j].id)
                                /\ j < n
                                /\ ~pl.attempts[j].ok
                  /\ list[n].device_is_in_use =>
                        /\ pl.attempts[n].ok
                        /\ list[n].context = "ctx"
                        /\ \A j \in 1..(n - 1) :
                              list[j].device_is_in_use => ~pl.attempts[j].ok
            /\ (st.fatal = "no_context" /\ k = st.cur) =>
                  \A j \in DOMAIN list : Attempted(pl, list[j].id)

\* Initialize has returned with a preferred device that is marked in use
\* and whose lock another process holds: Set_Context failed on the free
\* device before it
C25_Witness ==
    \E p \in Procs : \E k \in DOMAIN procs[p].platforms :
        LET pl   == procs[p].platforms[k]
            list == pl.device_list
        IN  /\ Ready(p)
            /\ pl.preferred_device = 2
            /\ ~list[1].device_is_in_use
            /\ list[1].context = "NULL"
            /\ list[2].device_is_in_use
            /\ list[2].probe = "ewouldblock"
            /\ list[2].context = "ctx"
            /\ HeldByOther(os, p, DevicePath(procs[p], <<k, 2>>))

----------------------------------------------------------------------------
(* C26: Lock() is not re-entrant.  Lock() on a device whose lock the       *)
(* process already holds opens a second description, is refused the lock   *)
(* by the first, closes the second and gets -1; a step of Lock_Best_Device *)
(* on such a device ends the process, whatever the system calls do, and    *)
(* never leaves the process running with two descriptions or a new one.    *)
C26_NotReentrant ==
    /\ [](\A p \in Procs : Ready(p) =>
             \A x \in LockedDevices(procs[p]) :
                HoldsLock(os, p, procs[p], x) =>
                   LET d == DeviceAt(procs[p], x)
                       r == Lock(d, procs[p].platforms[d.parent_platform], os, p, "ok")
                   IN  /\ r.aborted
                       /\ r.os.ofds = os.ofds
                       /\ r.dev.lock_file = NoFd)
    /\ [][\A p \in Procs : \A key \in UserKeys(procs[p]) :
             ( /\ LockBestDeviceKey(p, key)
               /\ Lookup(procs[p], key) # ""
               /\ DeviceAt(procs[p], PreferredPosition(procs[p], Lookup(procs[p], key)))
                     .file_locked ) =>
                /\ procs'[p].pc = "aborted"
                /\ procs'[p].fatal = "lock_failed"
                /\ OfdsOf(os', p) = {}
      ]_vars

\* a process ended by its second Lock() on a device: file_locked is still
\* TRUE from the first, lock_file is the -1 of the second, no system call
\* failed and nobody holds the lock now
C26_Witness ==
    \E p \in Procs :
        /\ procs[p].pc = "aborted"
        /\ procs[p].fatal = "lock_failed"
        /\ faults = 0
        /\ \E x \in LockedDevices(procs[p]) :
              /\ DeviceAt(procs[p], x).lock_file = NoFd
              /\ Holders(os, DevicePath(procs[p], x)) = {}


----------------------------------------------------------------------------
\* the platforms of the machine whose OpenCL_platform::Initialize has returned
\* in st: the loop index has moved past them
Passed(st) ==
    IF st.pc \in {"start", "absent"} THEN {} ELSE {q \in DOMAIN host : q < st.i}

\* no other process holds the lock of device x of the machine
NotHeldElsewhere(x) == ForeignLock(host, x) \notin os.ofds

\* the platform the loop stood on when the process ended in devices_list.Initialize
FailedOn(st) == st.platforms[st.cur]

(* C27: every platform must pass.  Whatever the hint, Initialize works     *)
(* through every platform of the machine: a platform it has moved past has *)
(* a device, and a device whose lock nobody else holds; a platform record  *)
(* whose Initialize has returned has a device not marked in use and a      *)
(* preferred device that holds a context; when Initialize has returned all *)
(* platforms have passed and every vendor key has its initialized record.  *)
(* A process that ended in devices_list.Initialize ended on the platform   *)
(* that failed the test, preferred or not.                                 *)
C27_EveryPlatformMustPass ==
    \A p \in Procs :
        LET st == procs[p]
        IN  /\ \A q \in Passed(st) :
                  /\ Len(host[q].cpus) + Len(host[q].gpus) >= 1
                  /\ \E x \in HostDevices(host) : x[1] = q /\ NotHeldElsewhere(x)
            /\ \A k \in DOMAIN st.platforms :
                  Returned(st, k) =>
                     LET pl == st.platforms[k]
                     IN  /\ Len(pl.device_list) >= 1
                         /\ \E j \in DOMAIN pl.device_list :
                               ~pl.device_list[j].device_is_in_use
                         /\ pl.preferred_device \in DOMAIN pl.device_list
                         /\ pl.device_list[pl.preferred_device].context = "ctx"
            /\ Ready(p) =>
                  /\ Passed(st) = DOMAIN host
                  /\ DOMAIN st.platforms = HostKeys
                  /\ \A k \in HostKeys : st.platforms[k].is_initialized
            /\ (st.pc = "aborted" /\ st.fatal = "no_device") =>
                  FailedOn(st).nb_cpu + FailedOn(st).nb_gpu = 0
            /\ (st.pc = "aborted" /\ st.fatal = "all_in_use") =>
                  \A j \in DOMAIN FailedOn(st).device_list :
                      FailedOn(st).device_list[j].device_is_in_use
            /\ (st.pc = "aborted" /\ st.fatal = "no_context") =>
                  /\ Len(FailedOn(st).attempts) = Len(FailedOn(st).device_list)
                  /\ \A j \in DOMAIN FailedOn(st).attempts :
                        ~FailedOn(st).attempts[j].ok

\* the hint names the Intel platform, which the machine has and whose device
\* is free, and the process ended on the other platform, whose devices were
\* all in use
C27_Witness ==
    \E p \in Procs :
        /\ procs[p].pc = "aborted"
        /\ procs[p].fatal = "all_in_use"
        /\ procs[p].preferred_platform = "intel"
        /\ procs[p].cur # "intel"
        /\ "intel" \in HostKeys
        /\ \A x \in HostDevices(host) :
              Classify(host[x[1]].vendor) = "intel" => NotHeldElsewhere(x)

----------------------------------------------------------------------------
\* the two keys that stand for "the first platform of the map"
Sentinels == {"-1", ""}

(* C28: the hint is not validated.  Initialize returns with any hint: a    *)
(* hint that is not a sentinel is the preferred platform as given, whether *)
(* the map has it or not, and a sentinel is replaced by the first key of   *)
(* the map.  operator[] with a key that is not a sentinel gives the        *)
(* platform stored under exactly that key, or ends the process when the    *)
(* map has none; with a sentinel it gives the first platform and ends the  *)
(* process only when the map is empty, which it is before Initialize and   *)
(* never after.  A missing hint ends no process before operator[] is       *)
(* called with it.                                                         *)
C28_HintNotValidated ==
    /\ [](\A p \in Procs :
            LET st == procs[p]
            IN  /\ Ready(p) =>
                      /\ st.platforms # <<>>
                      /\ st.arg \notin Sentinels => st.preferred_platform = st.arg
                      /\ st.arg \in Sentinels =>
                            st.preferred_platform = FirstKey(st.platforms)
                /\ \A key \in UserKeys(st) \cup Sentinels :
                      /\ (key \notin Sentinels /\ key \in DOMAIN st.platforms) =>
                            Lookup(st, key) = key
                      /\ (key \notin Sentinels /\ key \notin DOMAIN st.platforms) =>
                            Lookup(st, key) = ""
                      /\ (key \in Sentinels /\ DOMAIN st.platforms # {}) =>
                            Lookup(st, key) = FirstKey(st.platforms)
                      /\ (key \in Sentinels /\ DOMAIN st.platforms = {}) =>
                            Lookup(st, key) = ""
                /\ st.fatal = "platform_not_found" =>
                      /\ st.pc = "aborted"
                      /\ st.preferred_platform \notin DOMAIN st.platforms)
    /\ [][\A p \in Procs : \A key \in UserKeys(procs[p]) :
             LockBestDeviceKey(p, key) =>
                LET st  == procs[p]
                    st1 == procs'[p]
                    k   == IF key \in Sentinels THEN FirstKey(st.platforms) ELSE key
                IN  IF key \notin Sentinels /\ key \notin DOMAIN st.platforms
                    THEN /\ st1.pc = "aborted"
                         /\ st1.fatal = "platform_not_found"
                         /\ st1.platforms = st.platforms
                    ELSE /\ st1.fatal # "platform_not_found"
                         /\ \A j \in DOMAIN st.platforms \ {k} :
                               st1.platforms[j] = st.platforms[j]
                         /\ st1.pc = "ready" =>
                               DeviceAt(st1, PreferredPosition(st1, k)).file_locked]_vars

\* Initialize("intel") has returned on a machine without an Intel platform,
\* and operator[]("intel") has ended the process
C28_Witness ==
    \E p \in Procs :
        /\ procs[p].pc = "aborted"
        /\ procs[p].fatal = "platform_not_found"
        /\ procs[p].arg = "intel"
        /\ procs[p].preferred_platform = "intel"
        /\ "intel" \notin HostKeys
        /\ DOMAIN procs[p].platforms = HostKeys
        /\ \A k \in HostKeys : procs[p].platforms[k].is_initialized

----------------------------------------------------------------------------
\* the positions of the list of pl whose device holds a context
Holding(pl) == {j \in DOMAIN pl.device_list : pl.device_list[j].context # "NULL"}

\* Set_Context was called on the device with this id in the last walk of pl
\* and failed
AttemptFailed(pl, id) ==
    \E a \in DOMAIN pl.attempts : pl.attempts[a].id = id /\ ~pl.attempts[a].ok

\* the record pl has been through Initialize once: no earlier platform of the
\* machine has its vendor key
InitializedOnce(pl) ==
    \A q \in DOMAIN host : Classify(host[q].vendor) = pl.key => q >= pl.id

C29_ContextOfTheLastWalk ==
    \A p \in Procs : Ready(p) =>
        \A k \in DOMAIN procs[p].platforms :
            LET pl == procs[p].platforms[k]
            IN  /\ pl.preferred_device \in Holding(pl)
                /\ \A j \in DOMAIN pl.device_list :
                      AttemptFailed(pl, pl.device_list[j].id)
                      => pl.device_list[j].context = "NULL"
                /\ \A j \in Holding(pl) \ {pl.preferred_device} :
                      /\ ~InitializedOnce(pl)
                      /\ ~Attempted(pl, pl.device_list[j].id)
                /\ InitializedOnce(pl) => Holding(pl) = {pl.preferred_device}

----------------------------------------------------------------------------
\* the path the probe of Set_Information uses for the device the iterator of
\* st stands on
ProbePath(st) == PathOf(SnapshotAt(st), st.platforms[st.cur])

\* the device of the machine behind the list element at x of st
MachineDevice(st, x) == <<st.platforms[x[1]].id, DeviceAt(st, x).id + 1>>

(* C30: one path per device.  The probe of a device uses the path made of  *)
(* the platform's offset and name and the device's id and name, and opens  *)
(* no other file.  In a platform whose list has been sorted every device   *)
(* points to its platform, and the path Lock() derives through that        *)
(* pointer is the path the probe used for the device with its id: the sort *)
(* moves devices and changes none of the four inputs.  Lock_Best_Device    *)
(* opens that path and no other.  So two processes of one machine derive   *)
(* the same path for the same device.                                      *)
C30_OnePathPerDevice ==
    /\ [](\A p \in Procs : \A x \in DevicePositions(procs[p]) :
            Sorted(procs[p], x[1]) =>
               LET st == procs[p]
                   d  == DeviceAt(st, x)
                   pl == st.platforms[x[1]]
               IN  /\ d.parent_platform = x[1]
                   /\ d.name = HostDevice(pl.id, d.id).name
                   /\ DevicePath(st, x) =
                         get_lock_filename(d.id, pl.id_offset, pl.name, d.name)
                   /\ DevicePath(st, x) = HostPath(host, MachineDevice(st, x))
                   /\ \A q \in Procs : \A y \in DevicePositions(procs[q]) :
                         ( /\ Sorted(procs[q], y[1])
                           /\ MachineDevice(procs[q], y) = MachineDevice(st, x) )
                         => DevicePath(procs[q], y) = DevicePath(st, x))
    /\ [][\A p \in Procs :
             ProbeLock(p) =>
                LET st == procs[p]
                    pl == st.platforms[st.cur]
                    d  == SnapshotAt(st)
                IN  /\ d.id = st.it - 1
                    /\ ProbePath(st) =
                          get_lock_filename(d.id, pl.id_offset, pl.name, d.name)
                    /\ ProbePath(st) = HostPath(host, <<pl.id, st.it>>)
                    /\ \A e \in os'.ofds \ os.ofds :
                          e.proc = p /\ e.path = ProbePath(st)]_vars
    /\ [][\A p \in Procs : \A key \in UserKeys(procs[p]) :
             (LockBestDeviceKey(p, key) /\ Lookup(procs[p], key) # "") =>
                LET x == PreferredPosition(procs[p], Lookup(procs[p], key))
                IN  /\ Sorted(procs[p], x[1])
                    /\ DeviceAt(procs[p], x).parent_platform = x[1]
                    /\ \A e \in os'.ofds \ os.ofds :
                          /\ e.proc = p
                          /\ e.path = HostPath(host, MachineDevice(procs[p], x))]_vars

\* a process holds the lock of a device that the sort moved to the front of
\* its list (its id is not 0), under the path of the machine's device; the
\* other process has the same device in a sorted list of its own
C30_Witness ==
    \E p, q \in Procs : \E x \in DevicePositions(procs[p]) :
        /\ p # q
        /\ Ready(p)
        /\ x[2] = 1
        /\ DeviceAt(procs[p], x).id # 0
        /\ DeviceAt(procs[p], x).file_locked
        /\ HoldsLock(os, p, procs[p], x)
        /\ DevicePath(procs[p], x) = HostPath(host, MachineDevice(procs[p], x))
        /\ \E y \in DevicePositions(procs[q]) :
              /\ Sorted(procs[q], y[1])
              /\ MachineDevice(procs[q], y) = MachineDevice(procs[p], x)
=============================================================================
